---- MODULE Spec2Model ----
(***************************************************************************)
(* famAI: the QA Gateway (services/QAGateway.js) and the job tracker of    *)
(* the BIM-LLM routes (routes/bim-llm.js, kept in src/routes/auth.js from  *)
(* line 505 on, with routes/common/da4revitImp.js).                        *)
(*                                                                         *)
(* Two specifications:                                                     *)
(*   SpecQA  validateFamily applied to a SIR and a code string drawn from  *)
(*           bounded sets;                                                  *)
(*   Spec    the routes acting on activeSessions and workitemQueue, with   *)
(*           the clock and the Design Automation backend as environment.   *)
(***************************************************************************)
EXTENDS Integers, Sequences, FiniteSets, TLC

(***************************************************************************)
(* Bounds of the model.                                                    *)
(***************************************************************************)
\* the clock stops at MaxTime seconds
MaxTime == 16
\* at most MaxJobs workitems are ever created
MaxJobs == 1
\* at most MaxExtrusions extrusions in a SIR of SpecQA
MaxExtrusions == 2
\* a session is refined at most MaxRefinements times
MaxRefinements == 2

(***************************************************************************)
(* JavaScript values.  A number field that may be undefined holds Undef;   *)
(* a string field that may be undefined or empty holds "" (both falsy).    *)
(***************************************************************************)
Undef == 0 - 1

Abs(x) == IF x < 0 THEN -x ELSE x

Min(a, b) == IF a < b THEN a ELSE b

(***************************************************************************)
(* The SIR.  Sections that may be absent carry a has* flag; an array that  *)
(* may be undefined is the empty sequence (the validations treat the two   *)
(* alike: `!a || a.length === 0`, `if (a) a.forEach`).                     *)
(*   extrusion  profile: number of profile points, Undef when absent;      *)
(*              hasPoints: startPoint and endPoint present; startZ, endZ    *)
(*   plane      the normal, integer components                              *)
(*   constraint element1, element2 present                                  *)
(*   parameter  name, type, formula (sequence of tokens, <<>> when none)    *)
(*   family type name and the sequence of its parameter bindings            *)
(***************************************************************************)
Extrusion(profile, hasPoints, startZ, endZ) ==
    [profile |-> profile, hasPoints |-> hasPoints, startZ |-> startZ, endZ |-> endZ]

Plane(x, y, z) == [x |-> x, y |-> y, z |-> z]

Constraint(e1, e2) == [element1 |-> e1, element2 |-> e2]

Param(name, type, formula) == [name |-> name, type |-> type, formula |-> formula]

\* a value bound in a family type: the parameter's name and the kind of value
Binding(name, kind) == [name |-> name, kind |-> kind]

FamilyType(name, values) == [name |-> name, parameters |-> values]

(***************************************************************************)
(* validateFormula.  A formula is a sequence of tokens separated by blanks *)
(* ; a token is an operator character, a number or a word.                 *)
(***************************************************************************)
validOperators == {"+", "-", "*", "/", "(", ")", "=", "<", ">"}

NumberTokens == {"2", "10"}

\* number of characters of the formula string (tokens joined by one blank)
RECURSIVE FormulaLength(_)
FormulaLength(f) ==
    IF f = <<>> THEN 0
    ELSE (IF Head(f) \in validOperators \cup {"2"} THEN 1
          ELSE IF Head(f) = "10" THEN 2 ELSE 5)
         + (IF Len(f) > 1 THEN 1 ELSE 0) + FormulaLength(Tail(f))

ParameterNames(parameters) == {parameters[i].name : i \in 1..Len(parameters)}

validateFormula(formula, parameters) ==
    IF formula = <<>> THEN FALSE
    ELSE IF (\A i \in 1..Len(formula) : formula[i] \notin validOperators)
            /\ FormulaLength(formula) > 1 THEN FALSE
    ELSE \A i \in 1..Len(formula) :
            \/ formula[i] \in validOperators
            \/ formula[i] \in NumberTokens
            \/ formula[i] \in ParameterNames(parameters)

(***************************************************************************)
(* A per-pass validation result.  issues and warnings are the lengths of   *)
(* the two lists.                                                          *)
(***************************************************************************)
NewResults == [pass |-> TRUE, issues |-> 0, warnings |-> 0, score |-> 100]

Issue_KeepPass(r, points) ==
    [r EXCEPT !.issues = @ + 1, !.score = @ - points]

Issue(r, points) ==
    [r EXCEPT !.pass = FALSE, !.issues = @ + 1, !.score = @ - points]

Warning(r, points) == [r EXCEPT !.warnings = @ + 1, !.score = @ - points]

\* the catch block of every validate* method
Caught(r) == [r EXCEPT !.pass = FALSE, !.issues = @ + 1, !.score = 0]

(***************************************************************************)
(* validateGeometry                                                        *)
(***************************************************************************)
\* the forEach over the extrusions; threw: extrusion.endPoint.z of an
\* extrusion without points raised a TypeError
RECURSIVE GeometryExtrusions_MinTwo(_, _)
GeometryExtrusions_MinTwo(exts, r) ==
    IF exts = <<>> THEN [threw |-> FALSE, r |-> r]
    ELSE LET e == Head(exts)
             r1 == IF e.profile = Undef \/ e.profile < 2 THEN Issue(r, 20) ELSE r
         IN  IF ~e.hasPoints THEN [threw |-> TRUE, r |-> r1]
             ELSE LET r2 == IF Abs(e.endZ - e.startZ) <= 0 THEN Issue(r1, 15) ELSE r1
                      r3 == IF e.profile # Undef /\ e.profile > 20
                            THEN Warning(r2, 5) ELSE r2
                  IN  GeometryExtrusions_MinTwo(Tail(exts), r3)

RECURSIVE GeometryExtrusions(_, _)
GeometryExtrusions(exts, r) ==
    IF exts = <<>> THEN [threw |-> FALSE, r |-> r]
    ELSE LET e == Head(exts)
             r1 == IF e.profile = Undef \/ e.profile < 3 THEN Issue(r, 20) ELSE r
         IN  IF ~e.hasPoints THEN [threw |-> TRUE, r |-> r1]
             ELSE LET r2 == IF Abs(e.endZ - e.startZ) <= 0 THEN Issue(r1, 15) ELSE r1
                      r3 == IF e.profile # Undef /\ e.profile > 20
                            THEN Warning(r2, 5) ELSE r2
                  IN  GeometryExtrusions(Tail(exts), r3)

\* |sqrt(x^2 + y^2 + z^2) - 1| > 0.001, for integer components
InvalidNormal(n) == n.x * n.x + n.y * n.y + n.z * n.z # 1

RECURSIVE GeometryPlanes(_, _)
GeometryPlanes(planes, r) ==
    IF planes = <<>> THEN r
    ELSE GeometryPlanes(Tail(planes),
                        IF InvalidNormal(Head(planes)) THEN Issue(r, 10) ELSE r)

RECURSIVE GeometryConstraints(_, _)
GeometryConstraints(cons, r) ==
    IF cons = <<>> THEN r
    ELSE GeometryConstraints(Tail(cons),
            IF ~Head(cons).element1 \/ ~Head(cons).element2 THEN Issue(r, 10) ELSE r)

GeometryLOD(sir, r) ==
    LET lod == sir.familyMetadata.lodLevel
        n == Len(sir.geometryDefinition.extrusions)
    IN  IF lod # Undef /\ lod <= 200
        THEN (IF n > 3 THEN Warning(r, 5) ELSE r)
        ELSE IF lod # Undef /\ lod >= 400
        THEN (IF n < 2 THEN Warning(r, 5) ELSE r)
        ELSE r

validateGeometry(sir) ==
    IF ~sir.hasGeometryDefinition THEN Caught(NewResults)
    ELSE LET g == sir.geometryDefinition
             r0 == IF Len(g.extrusions) = 0 THEN Issue(NewResults, 30) ELSE NewResults
             x == GeometryExtrusions(g.extrusions, r0)
         IN  IF x.threw THEN Caught(x.r)
             ELSE LET r2 == GeometryConstraints(g.constraints,
                                GeometryPlanes(g.referencePlanes, x.r))
                  IN  IF ~sir.hasFamilyMetadata THEN Caught(r2)
                      ELSE GeometryLOD(sir, r2)

(***************************************************************************)
(* validateParameters                                                      *)
(***************************************************************************)
\* /^[a-zA-Z][a-zA-Z0-9_]*$/ on the names the model uses
ValidNames == {"Width", "Height", "Depth", "Thickness", "Length", "SillHeight", "Inset",
               "GlassPaneMaterial", "SashMaterial"}

validTypes == {"Length", "Number", "Text", "Material", "YesNo", "Integer"}

getEssentialParameters(category) ==
    IF category = "Doors" THEN {"Width", "Height", "Thickness"}
    ELSE IF category = "Windows" THEN {"Width", "Height", "Sill Height"}
    ELSE IF category \in {"Furniture", "Structural Columns", "Mechanical Equipment",
                          "Electrical Equipment", "Plumbing Fixtures"}
         THEN {"Width", "Depth", "Height"}
    ELSE IF category = "Structural Framing" THEN {"Length", "Width", "Height"}
    ELSE {}

\* value kinds: "int" 3, "float" 2.5, "text" a non-numeric string, "bool" true
validateParameterValue(kind, type) ==
    IF type \in {"Length", "Number"} THEN kind # "text"
    ELSE IF type = "Integer" THEN kind \in {"int", "bool"}
    ELSE IF type = "YesNo" THEN kind = "bool"
    ELSE IF type \in {"Text", "Material"} THEN kind = "text"
    ELSE TRUE

\* the forEach over familyParameters; i is the index of the parameter
RECURSIVE ParameterDefinitions(_, _, _)
ParameterDefinitions(ps, i, r) ==
    IF i > Len(ps) THEN r
    ELSE LET p == ps[i]
             r1 == IF \E j \in 1..(i - 1) : ps[j].name = p.name
                   THEN Issue(r, 15) ELSE r
             r2 == IF p.name \notin ValidNames THEN Issue(r1, 10) ELSE r1
             r3 == IF p.type \notin validTypes THEN Issue(r2, 10) ELSE r2
             r4 == IF p.formula # <<>> /\ ~validateFormula(p.formula, ps)
                   THEN Issue(r3, 10) ELSE r3
         IN  ParameterDefinitions(ps, i + 1, r4)

RECURSIVE Warnings(_, _, _)
Warnings(r, n, points) == IF n = 0 THEN r ELSE Warnings(Warning(r, points), n - 1, points)

RECURSIVE TypeBindings(_, _, _)
TypeBindings(bs, ps, r) ==
    IF bs = <<>> THEN r
    ELSE LET b == Head(bs)
             defs == {i \in 1..Len(ps) : ps[i].name = b.name}
             first == CHOOSE i \in defs : \A j \in defs : i <= j
         IN  TypeBindings(Tail(bs), ps,
                IF defs # {} /\ ~validateParameterValue(b.kind, ps[first].type)
                THEN Issue(r, 5) ELSE r)

\* the forEach over familyTypes; threw: a binding was looked up in an
\* undefined familyParameters
RECURSIVE ParameterTypes(_, _, _)
ParameterTypes(ts, params, r) ==
    IF ts = <<>> THEN [threw |-> FALSE, r |-> r]
    ELSE LET t == Head(ts)
             r1 == IF t.name = "" THEN Issue(r, 10) ELSE r
         IN  IF t.parameters # <<>> /\ ~params.hasFamilyParameters
             THEN [threw |-> TRUE, r |-> r1]
             ELSE ParameterTypes(Tail(ts), params,
                                 TypeBindings(t.parameters, params.familyParameters, r1))

validateParameters(sir) ==
    IF ~sir.hasParameters THEN Caught(NewResults)
    ELSE LET ps == sir.parameters.familyParameters
             r0 == IF ~sir.parameters.hasFamilyParameters \/ Len(ps) = 0
                   THEN Issue(NewResults, 40) ELSE NewResults
             r1 == IF ~sir.parameters.hasFamilyParameters THEN r0
                   ELSE ParameterDefinitions(ps, 1, r0)
         IN  IF sir.parameters.hasFamilyParameters /\ ~sir.hasFamilyMetadata
             THEN Caught(r1)
             ELSE LET r2 == IF ~sir.parameters.hasFamilyParameters THEN r1
                            ELSE Warnings(r1,
                                   Cardinality(getEssentialParameters(sir.familyMetadata.category)
                                               \ ParameterNames(ps)), 5)
                      x == ParameterTypes(sir.parameters.familyTypes, sir.parameters, r2)
                  IN  IF x.threw THEN Caught(x.r) ELSE x.r

(***************************************************************************)
(* validatePerformance.  A code string is known by the numbers of its      *)
(* 'while ' loops, of its 'for i in range(1000)' loops and of its other    *)
(* complexity indicators ('if ', 'for ', 'try:', 'except:', 'def ',        *)
(* 'class ').                                                              *)
(***************************************************************************)
Code(whileLoops, bigRangeLoops, others) ==
    [whileLoops |-> whileLoops, bigRangeLoops |-> bigRangeLoops, others |-> others]

\* metrics.complexityScore: a 'for i in range(1000)' also matches 'for '
analyzeCodeComplexity(code) == 2 * (code.whileLoops + code.bigRangeLoops + code.others)

RECURSIVE TotalProfilePoints(_)
TotalProfilePoints(exts) ==
    IF exts = <<>> THEN 0
    ELSE (IF Head(exts).profile = Undef THEN 0 ELSE Head(exts).profile)
         + TotalProfilePoints(Tail(exts))

validatePerformance(sir, code) ==
    LET r1 == IF analyzeCodeComplexity(code) > 50 THEN Warning(NewResults, 10)
              ELSE NewResults
        r2 == IF code.whileLoops > 0 \/ code.bigRangeLoops > 0 THEN Issue(r1, 20) ELSE r1
    IN  IF ~sir.hasGeometryDefinition THEN Caught(r2)
        ELSE LET exts == sir.geometryDefinition.extrusions
                 r3 == IF TotalProfilePoints(exts) > 100 THEN Warning(r2, 15) ELSE r2
             IN  IF ~sir.hasParameters THEN Caught(r3)
                 ELSE LET r4 == IF Len(sir.parameters.familyParameters) > 20
                                THEN Warning(r3, 10) ELSE r3
                      IN  IF ~sir.hasFamilyMetadata THEN Caught(r4)
                          ELSE IF sir.familyMetadata.lodLevel # Undef
                                  /\ sir.familyMetadata.lodLevel <= 200
                                  /\ Len(exts) > 2
                               THEN Warning(r4, 10) ELSE r4

(***************************************************************************)
(* validateCompliance: the three compliance checks are stubs that pass.    *)
(***************************************************************************)
validateBEPCompliance(sir) == [pass |-> TRUE, scoreDeduction |-> 0]

validateCompliance(sir) ==
    IF ~validateBEPCompliance(sir).pass
    THEN Issue(NewResults, validateBEPCompliance(sir).scoreDeduction)
    ELSE NewResults

(***************************************************************************)
(* validateFlexing                                                         *)
(***************************************************************************)
\* formula.includes(name): no name of the model is part of another token
FormulaIncludes(formula, name) == \E i \in 1..Len(formula) : formula[i] = name

\* a scenario per Length or Number parameter; it fails when the first
\* parameter whose formula mentions it has an invalid formula
validateFlexingScenario(name, ps) ==
    LET refs == {i \in 1..Len(ps) : ps[i].formula # <<>> /\ FormulaIncludes(ps[i].formula, name)}
        first == CHOOSE i \in refs : \A j \in refs : i <= j
    IN  refs = {} \/ validateFormula(ps[first].formula, ps)

RECURSIVE FlexingScenarios(_, _, _)
FlexingScenarios(ps, i, r) ==
    IF i > Len(ps) THEN r
    ELSE FlexingScenarios(ps, i + 1,
            IF ps[i].type \in {"Length", "Number"} /\ ~validateFlexingScenario(ps[i].name, ps)
            THEN Issue(r, 15) ELSE r)

validateFlexing(sir) ==
    IF ~sir.hasParameters THEN Caught(NewResults)
    ELSE LET r1 == FlexingScenarios(sir.parameters.familyParameters, 1, NewResults)
         IN  IF ~sir.hasGeometryDefinition THEN Caught(r1) ELSE r1

(***************************************************************************)
(* validateMetadata                                                        *)
(***************************************************************************)
validCategories ==
    {"Doors", "Windows", "Furniture", "Structural Framing", "Structural Columns",
     "Mechanical Equipment", "Electrical Equipment", "Plumbing Fixtures"}

InvalidLOD_RangeOnly(lod) == lod # Undef /\ (lod < 100 \/ lod > 500)

\* lod < 100 || lod > 500 || lod % 100 !== 0 (undefined % 100 is NaN)
InvalidLOD(lod) == lod = Undef \/ lod < 100 \/ lod > 500 \/ lod % 100 # 0

validateMetadata(sir) ==
    IF ~sir.hasFamilyMetadata THEN Caught(NewResults)
    ELSE LET m == sir.familyMetadata
             r1 == IF m.familyName = "" THEN Issue(NewResults, 20) ELSE NewResults
             r2 == IF m.category = "" THEN Issue(r1, 20) ELSE r1
             r3 == IF m.lodLevel = Undef \/ m.lodLevel = 0 THEN Issue(r2, 20) ELSE r2
             r4 == IF InvalidLOD(m.lodLevel) THEN Issue(r3, 25) ELSE r3
             r5 == IF m.category \notin validCategories THEN Warning(r4, 5) ELSE r4
         IN  IF m.description = "" THEN Warning(r5, 5) ELSE r5

(***************************************************************************)
(* determineOverallPass and validateFamily                                 *)
(***************************************************************************)
criticalValidations == {"geometryValidation", "parameterValidation", "metadataValidation"}

determineOverallPass_NoMetadata(validations) ==
    \A v \in {"geometryValidation", "parameterValidation"} :
        v \in DOMAIN validations /\ validations[v].pass

determineOverallPass_AllSix(validations) ==
    \A v \in DOMAIN validations : validations[v].pass

determineOverallPass(validations) ==
    \A v \in criticalValidations : v \in DOMAIN validations /\ validations[v].pass

\* the result of the catch block: overallPass false, an error, no validations
QAError == [overallPass |-> FALSE, error |-> TRUE, validations |-> <<>>]

validateFamily(sir, generatedCode) ==
    IF ~sir.hasFamilyMetadata THEN QAError
    ELSE LET validations ==
                 [geometryValidation |-> validateGeometry(sir),
                  parameterValidation |-> validateParameters(sir),
                  performanceValidation |-> validatePerformance(sir, generatedCode),
                  complianceValidation |-> validateCompliance(sir),
                  flexingValidation |-> validateFlexing(sir),
                  metadataValidation |-> validateMetadata(sir)]
         IN  [overallPass |-> determineOverallPass(validations),
              error |-> FALSE,
              validations |-> validations]

(***************************************************************************)
(* The SIRs and code strings the validations are applied to.               *)
(***************************************************************************)
Metadata(familyName, category, lodLevel, description) ==
    [familyName |-> familyName, category |-> category, lodLevel |-> lodLevel,
     description |-> description]

MkSIR(meta, exts, planes, cons, hasPs, ps, types) ==
    [hasFamilyMetadata |-> TRUE, familyMetadata |-> meta,
     hasGeometryDefinition |-> TRUE,
     geometryDefinition |-> [extrusions |-> exts, referencePlanes |-> planes,
                             constraints |-> cons],
     hasParameters |-> TRUE,
     parameters |-> [hasFamilyParameters |-> hasPs, familyParameters |-> ps,
                     familyTypes |-> types],
     hasMaterials |-> TRUE, hasVisibilitySettings |-> TRUE]

Metas ==
    {Metadata("Generated Window", "Windows", 300, "Parametric window family"),
     Metadata("Generated Window", "Windows", 200, "Parametric window family"),
     Metadata("Generated Window", "Windows", 400, ""),
     Metadata("Generated Window", "Windows", 250, "Parametric window family"),
     Metadata("Generated Window", "Windows", 600, "Parametric window family"),
     Metadata("Generated Window", "Windows", Undef, "Parametric window family"),
     Metadata("", "Custom", 300, "Parametric family"),
     Metadata("Generated Family", "", 300, "")}

ExtrusionKinds ==
    {Extrusion(4, TRUE, 0, 100), Extrusion(2, TRUE, 0, 100),
     Extrusion(4, TRUE, 5, 5), Extrusion(Undef, FALSE, 0, 0)}

RECURSIVE SeqsUpTo(_, _)
SeqsUpTo(S, n) ==
    IF n = 0 THEN {<<>>}
    ELSE SeqsUpTo(S, n - 1) \cup {Append(q, x) : q \in SeqsUpTo(S, n - 1), x \in S}

\* extrusions with a two-point profile and no height, one more than
\* MaxExtrusions of them
DegenerateExtrusions == [i \in 1..(MaxExtrusions + 1) |-> Extrusion(2, TRUE, 5, 5)]

ExtrusionLists == SeqsUpTo(ExtrusionKinds, MaxExtrusions) \cup {DegenerateExtrusions}

PlaneLists == {<<>>, <<Plane(0, 0, 1)>>, <<Plane(1, 1, 0)>>}

ConstraintLists == {<<>>, <<Constraint(TRUE, FALSE)>>}

\* <<hasFamilyParameters, familyParameters>>
ParameterLists ==
    {<<FALSE, <<>>>>,
     <<TRUE, <<>>>>,
     <<TRUE, <<Param("Width", "Length", <<>>)>>>>,
     <<TRUE, <<Param("Width", "Length", <<>>), Param("Width", "Number", <<>>)>>>>,
     <<TRUE, <<Param("Width", "Length", <<>>),
               Param("Height", "Length", <<"Width", "*", "2">>)>>>>,
     <<TRUE, <<Param("Width", "Length", <<>>),
               Param("Height", "Length", <<"Depth", "+", "Width">>)>>>>,
     <<TRUE, <<Param("Sill Height", "Length", <<>>)>>>>,
     <<TRUE, <<Param("Width", "Angle", <<>>)>>>>}

FamilyTypeLists ==
    {<<>>,
     <<FamilyType("Type 1", <<Binding("Width", "float")>>)>>,
     <<FamilyType("", <<Binding("Width", "text")>>)>>}

\* SIRs that lack a required section
PartialSIRs ==
    LET full == MkSIR(Metadata("Generated Window", "Windows", 300, "w"),
                      <<Extrusion(4, TRUE, 0, 100)>>, <<>>, <<>>,
                      TRUE, <<Param("Width", "Length", <<>>)>>, <<>>)
    IN  {[full EXCEPT !.hasFamilyMetadata = FALSE],
         [full EXCEPT !.hasGeometryDefinition = FALSE],
         [full EXCEPT !.hasParameters = FALSE]}

SIRs ==
    {MkSIR(m, e, pl, c, p[1], p[2], t) :
        m \in Metas, e \in ExtrusionLists, pl \in PlaneLists, c \in ConstraintLists,
        p \in ParameterLists, t \in FamilyTypeLists}
    \cup PartialSIRs

Codes == {Code(0, 0, 3), Code(1, 0, 3), Code(0, 1, 30)}

(***************************************************************************)
(* State.                                                                  *)
(*   qaSir, qaCode, qaResult   the arguments and the result of             *)
(*                             validateFamily (SpecQA)                     *)
(*   now                       the clock, in seconds                       *)
(*   demoMode                  BIMLLMService.demoMode: no language model   *)
(*                             is configured                               *)
(*   activeSessions            sessionId -> session data                   *)
(*   workitemQueue             workitemId -> workitem data                 *)
(*   backend                   the Design Automation service: the status   *)
(*                             of each workitem it holds                   *)
(*   jobCount                  number of workitem ids handed out           *)
(*   response                  the last request's route and the HTTP       *)
(*                             response to it                              *)
(*   conversationHistory       BIMLLMService: the turns kept per session   *)
(*   svcResult                 BIMLLMService: what the last call returned  *)
(*   family                    a stored Family document: its version and   *)
(*                             its refinements                             *)
(*   codeResult                what translateSIRToCode returned for qaSir  *)
(*   apsSir, apsParams         a SIR handed to convertSIRToAPSParams and   *)
(*                             the parameters it returned                  *)
(*   requests                  the refine and execute requests in flight:  *)
(*                             where each handler stands and the session   *)
(*                             object it holds                             *)
(*   sessionObjects            the session objects created so far          *)
(*   sessionRef                the object activeSessions holds for "s1"    *)
(*                             (0: none)                                   *)
(*   refineLog                 the SIRs stored by refine requests since    *)
(*                             the session was generated                   *)
(*   subscription              the subscription of the stored User         *)
(*                             document (<<>>: no user)                    *)
(*   creates                   the POST /api/families requests: where each *)
(*                             stands and the subscription of its req.user *)
(*   familyCount               the Family documents saved                  *)
(***************************************************************************)
VARIABLES qaSir, qaCode, qaResult,
          now, demoMode, activeSessions, workitemQueue, backend, jobCount, response,
          conversationHistory, svcResult, family, codeResult, apsSir, apsParams,
          requests, sessionObjects, sessionRef, refineLog,
          subscription, creates, familyCount

qaVars == <<qaSir, qaCode, qaResult>>

jobVars ==
    <<now, demoMode, activeSessions, workitemQueue, backend, jobCount, response>>

svcVars == <<conversationHistory, svcResult>>

convVars == <<apsSir, apsParams>>

\* the state of the components that are specified on their own
userVars == <<subscription, creates, familyCount>>

componentVars == <<svcVars, family, codeResult, convVars, userVars>>

concVars == <<requests, sessionObjects, sessionRef, refineLog>>

MaxRequests == 3

RequestIds == 1..MaxRequests

\* a request slot: op the route, pc where the handler stands ("awaiting":
\* suspended at an await), ref the session object its `sessionData` names,
\* apsParams what POST /v1/execute derived before its await, submitted what
\* went out with the job, overlapped whether a session was stored while the
\* execute request was suspended, code the status code of the answer
NoRequest ==
    [op |-> "none", pc |-> "idle", ref |-> 0, apsParams |-> <<>>, targetFolder |-> "",
     submitted |-> <<>>, overlapped |-> FALSE, code |-> 0]

\* no request in flight and no session object
ConcurrentIdle ==
    /\ requests = [r \in RequestIds |-> NoRequest]
    /\ sessionObjects = <<>>
    /\ sessionRef = 0
    /\ refineLog = <<>>

MaxCreates == 3

CreateIds == 1..MaxCreates

\* a POST /api/families request not made yet
NoCreate == [pc |-> "idle", user |-> <<>>, code |-> 0]

\* no user document and no POST /api/families request
UserIdle ==
    /\ subscription = <<>>
    /\ creates = [r \in CreateIds |-> NoCreate]
    /\ familyCount = 0

vars == <<qaSir, qaCode, qaResult,
          now, demoMode, activeSessions, workitemQueue, backend, jobCount, response,
          conversationHistory, svcResult, family, codeResult, apsSir, apsParams,
          requests, sessionObjects, sessionRef, refineLog,
          subscription, creates, familyCount>>

NoResult == [overallPass |-> FALSE, error |-> FALSE, validations |-> <<>>]

(***************************************************************************)
(* SpecQA: validateFamily on every SIR and code string of the bounded      *)
(* sets.  The job tracker's variables stay at their initial values.        *)
(***************************************************************************)
SessionIds == {"s1"}

WorkitemIds == {"aps", "real"} \X (1..MaxJobs)

NoSession == <<>>

NoWorkitem == <<>>

NoResponse ==
    [op |-> "none", code |-> 0, workitemId |-> <<>>, status |-> "",
     progress |-> 0, body |-> "none"]

\* the sessions of the language-model service's own runs
ServiceSessionIds == {"s1", "s2"}

NoServiceResult == [success |-> FALSE, sir |-> <<>>, sessionId |-> "", isDemo |-> FALSE]

ServiceInit ==
    /\ conversationHistory = [s \in ServiceSessionIds |-> <<>>]
    /\ svcResult = NoServiceResult

\* translateSIRToCode not called yet
NoCodeResult == [success |-> FALSE, error |-> "none", code |-> <<>>, sections |-> {}]

\* a Family document as created: version 1 (the schema's default) and no
\* refinements
FamilyInit == family = [version |-> 1, refinements |-> <<>>]

JobInit ==
    /\ now = 0
    /\ demoMode \in BOOLEAN
    /\ activeSessions = [s \in SessionIds |-> NoSession]
    /\ workitemQueue = [w \in WorkitemIds |-> NoWorkitem]
    /\ backend = [w \in WorkitemIds |-> "none"]
    /\ jobCount = 0
    /\ response = NoResponse
    /\ ServiceInit
    /\ FamilyInit
    /\ codeResult = NoCodeResult
    /\ ConcurrentIdle

\* convertSIRToAPSParams not called yet
NoAPSParams ==
    [FileName |-> <<>>, WindowStyle |-> "", GlassPaneMaterial |-> <<>>,
     SashMaterial |-> <<>>, WindowWidth |-> 0, WindowHeight |-> 0, caught |-> FALSE]

ConvertIdle ==
    /\ apsSir = <<>>
    /\ apsParams = NoAPSParams

QAIdle ==
    /\ qaSir = CHOOSE x \in PartialSIRs : TRUE
    /\ qaCode = Code(0, 0, 0)
    /\ qaResult = NoResult

InitQA ==
    /\ qaSir \in SIRs
    /\ qaCode \in Codes
    /\ qaResult = NoResult
    /\ JobInit
    /\ ConvertIdle
    /\ UserIdle

\* qaGateway.validateFamily(sir, code, null)
QAValidate ==
    /\ qaResult = NoResult
    /\ qaResult' = validateFamily(qaSir, qaCode)
    /\ UNCHANGED <<qaSir, qaCode>>
    /\ UNCHANGED <<jobVars, componentVars, concVars>>

NextQA == QAValidate

SpecQA == InitQA /\ [][NextQA]_vars

(***************************************************************************)
(* The job tracker.                                                        *)
(*                                                                         *)
(* A workitem id is <<"aps", n>> for a simulated workitem ('aps_...') or   *)
(* <<"real", n>> for an id assigned by the Design Automation service.      *)
(* Progress values are kept in units of 1/ProgressScale percent, so that   *)
(* the simulator's fractions are integers at whole seconds.                *)
(***************************************************************************)
ProgressScale == 6 * 7

Percent(p) == p * ProgressScale

totalSimulatedTime == 15

IsSimulated(w) == w[1] = "aps"

\* the statuses the Design Automation service reports
BackendStatuses == {"pending", "inprogress", "success", "failed", "cancelled"}

\* the route of a request and the response to it
Respond(op, code, w, status, progress, body) ==
    [op |-> op, code |-> code, workitemId |-> w, status |-> status,
     progress |-> progress, body |-> body]

(***************************************************************************)
(* SIRs a session can hold: the demo SIRs of generateDemoSIR and SIRs      *)
(* returned by the language model that passed BIMLLMService.validateSIR.   *)
(***************************************************************************)
DemoParameters ==
    <<Param("Width", "Length", <<>>), Param("Height", "Length", <<>>),
      Param("SillHeight", "Length", <<>>), Param("Inset", "Length", <<>>),
      Param("GlassPaneMaterial", "Material", <<>>),
      Param("SashMaterial", "Material", <<>>)>>

DemoTypes ==
    <<FamilyType("Type 1",
        <<Binding("Width", "float"), Binding("Height", "float"),
          Binding("SillHeight", "float"), Binding("Inset", "float"),
          Binding("GlassPaneMaterial", "text"), Binding("SashMaterial", "text")>>)>>

\* prompt kinds: what the prompt includes, "door", "window", "furniture", or
\* none of them ("other")
generateDemoSIR(prompt) ==
    LET base == MkSIR(Metadata("Generated Family", "Generic", 200,
                               "Parametric family generated from natural language"),
                      <<Extrusion(4, TRUE, 0, 100)>>, <<>>, <<>>,
                      TRUE, DemoParameters, DemoTypes)
        demo == [base EXCEPT !.hasVisibilitySettings = FALSE]
    IN  IF prompt = "door"
        THEN [demo EXCEPT !.familyMetadata =
                  Metadata("Generated Door", "Doors", 200, "Parametric door family"),
              !.geometryDefinition.extrusions = <<Extrusion(4, TRUE, 0, 50)>>]
        ELSE IF prompt = "window"
        THEN [demo EXCEPT !.familyMetadata =
                  Metadata("Generated Window", "Windows", 200, "Parametric window family"),
              !.geometryDefinition.extrusions =
                  <<Extrusion(4, TRUE, 0, 100), Extrusion(4, TRUE, 5, 95)>>]
        ELSE IF prompt = "furniture"
        THEN [demo EXCEPT !.familyMetadata =
                  Metadata("Generated Furniture", "Furniture", 200,
                           "Parametric furniture family")]
        ELSE demo

Prompts == {"window", "door", "furniture", "other"}

\* BIMLLMService.validateSIR: the five sections, a name and a category, and
\* not (lod < 100 || lod > 500)
ServiceValidSIR(sir) ==
    /\ sir.hasFamilyMetadata /\ sir.hasGeometryDefinition /\ sir.hasParameters
    /\ sir.hasMaterials /\ sir.hasVisibilitySettings
    /\ sir.familyMetadata.familyName # "" /\ sir.familyMetadata.category # ""
    /\ (sir.familyMetadata.lodLevel = Undef
        \/ ~(sir.familyMetadata.lodLevel < 100 \/ sir.familyMetadata.lodLevel > 500))

\* what the language model may answer
ModelSIRs ==
    LET ps == <<Param("Width", "Length", <<>>), Param("Height", "Length", <<>>)>>
        ty == <<FamilyType("Type 1", <<Binding("Width", "float")>>)>>
        win == Metadata("Generated Window", "Windows", 300, "Parametric window family")
    IN  {MkSIR(win, <<Extrusion(4, TRUE, 0, 100)>>, <<>>, <<>>, TRUE, ps, ty),
         MkSIR(win, <<Extrusion(2, TRUE, 0, 100)>>, <<>>, <<>>, TRUE, ps, ty),
         MkSIR([win EXCEPT !.lodLevel = 250],
               <<Extrusion(4, TRUE, 0, 100)>>, <<>>, <<>>, TRUE, ps, ty),
         MkSIR([win EXCEPT !.lodLevel = 600],
               <<Extrusion(4, TRUE, 0, 100)>>, <<>>, <<>>, TRUE, ps, ty)}

\* SIRToCodeInterpreter.validateSIR: the message of the error it throws,
\* "" when it throws none
validateSIR(sir) ==
    IF ~sir.hasFamilyMetadata THEN "Missing familyMetadata in SIR"
    ELSE IF ~sir.hasGeometryDefinition THEN "Missing geometryDefinition in SIR"
    ELSE IF ~sir.hasParameters THEN "Missing parameters in SIR"
    ELSE IF sir.familyMetadata.lodLevel # Undef
            /\ (sir.familyMetadata.lodLevel < 100 \/ sir.familyMetadata.lodLevel > 500)
    THEN "Invalid LOD level"
    ELSE ""

InterpreterValidSIR(sir) == validateSIR(sir) = ""

\* the code sections translateSIRToCode generates
CodeSections ==
    {"imports", "familySetup", "referencePlanes", "parameters", "geometry",
     "constraints", "materials", "familyTypes", "visibility", "validation"}

\* the emitted code has no 'while ' and no 'for i in range(1000)'; its
\* 'if ', 'for ' and 'def ' grow with the SIR
EmittedCode(sir) ==
    Code(0, 0, 10 + Len(sir.geometryDefinition.extrusions)
                  + Len(sir.parameters.familyParameters))

translateSIRToCode_EmitFirst(sir) ==
    [success |-> InterpreterValidSIR(sir), error |-> validateSIR(sir),
     code |-> EmittedCode(sir), sections |-> CodeSections]

\* validateSIR first; its error is caught and returned without code
translateSIRToCode(sir) ==
    IF validateSIR(sir) # ""
    THEN [success |-> FALSE, error |-> validateSIR(sir), code |-> <<>>,
          sections |-> {}]
    ELSE [success |-> TRUE, error |-> "", code |-> EmittedCode(sir),
          sections |-> CodeSections]

DemoCode == Code(0, 0, 0)

\* the QA result the routes use in demo mode
DemoQA ==
    LET ok == [pass |-> TRUE, issues |-> 0, warnings |-> 0, score |-> 85]
    IN  [overallPass |-> TRUE, error |-> FALSE,
         validations |->
            [geometryValidation |-> [ok EXCEPT !.score = 90],
             parameterValidation |-> ok,
             performanceValidation |-> [ok EXCEPT !.score = 80],
             complianceValidation |-> [ok EXCEPT !.score = 90],
             flexingValidation |-> ok,
             metadataValidation |-> [ok EXCEPT !.score = 80]]]

SessionData(sir, code, qa, status) ==
    [sir |-> sir, code |-> code, qaResult |-> qa, status |-> status,
     workitemId |-> <<>>, refinementCount |-> 0]

WorkitemData(status, createdAt, hasBucket, sessionId) ==
    [status |-> status, createdAt |-> createdAt, progress |-> 0, isRealAPS |-> TRUE,
     hasBucket |-> hasBucket, sessionId |-> sessionId]

(***************************************************************************)
(* POST /v1/generate, POST /create, POST /v1/refine                        *)
(***************************************************************************)
generateSIR_FailOnError(prompt, modelOk, answer) ==
    IF demoMode
    THEN [success |-> TRUE, sir |-> generateDemoSIR(prompt), isDemo |-> TRUE]
    ELSE IF ~modelOk \/ ~ServiceValidSIR(answer)
    THEN [success |-> FALSE, sir |-> <<>>, isDemo |-> FALSE]
    ELSE [success |-> TRUE, sir |-> answer, isDemo |-> FALSE]

\* BIMLLMService.generateSIR: the demo SIR in demo mode and on any failure
\* of the model call, the parse or the structural validation
generateSIR(prompt, modelOk, answer) ==
    IF demoMode \/ ~modelOk \/ ~ServiceValidSIR(answer)
    THEN [success |-> TRUE, sir |-> generateDemoSIR(prompt), isDemo |-> TRUE]
    ELSE [success |-> TRUE, sir |-> answer, isDemo |-> FALSE]

Generate(sid, prompt, modelOk, answer) ==
    /\ IF sid = "" \/ prompt = ""
       THEN /\ response' = Respond("generate", 400, <<>>, "", 0, "json")
            /\ UNCHANGED activeSessions
       ELSE LET g == generateSIR(prompt, modelOk, answer)
                c == IF g.isDemo THEN [success |-> TRUE, code |-> DemoCode]
                     ELSE translateSIRToCode(g.sir)
                qa == IF g.isDemo THEN DemoQA ELSE validateFamily(g.sir, c.code)
            IN  IF ~g.success
                THEN /\ response' = Respond("generate", 500, <<>>, "", 0, "json")
                     /\ UNCHANGED activeSessions
                ELSE IF ~c.success
                THEN /\ response' = Respond("generate", 500, <<>>, "", 0, "json")
                     /\ UNCHANGED activeSessions
                ELSE /\ activeSessions' =
                            [activeSessions EXCEPT ![sid] =
                                SessionData(g.sir, c.code, qa, "ready_for_execution")]
                     /\ response' = Respond("generate", 200, <<>>, "", 0, "json")
    /\ UNCHANGED <<now, demoMode, workitemQueue, backend, jobCount>>
    /\ UNCHANGED <<qaVars, componentVars, concVars>>

\* POST /create: the demo SIR, the demo code and the demo QA result
\* (a missing prompt or a failed OAuth call is answered 500)
Create(sid, prompt, authOk) ==
    /\ IF prompt = "" \/ ~authOk
       THEN /\ response' = Respond("create", 500, <<>>, "", 0, "json")
            /\ UNCHANGED activeSessions
       ELSE /\ activeSessions' =
                  [activeSessions EXCEPT ![sid] =
                      SessionData(generateDemoSIR(prompt), DemoCode, DemoQA, "ready")]
            /\ response' = Respond("create", 200, <<>>, "", 0, "json")
    /\ UNCHANGED <<now, demoMode, workitemQueue, backend, jobCount>>
    /\ UNCHANGED <<qaVars, componentVars, concVars>>

\* members of `this` in the route handlers: the handlers are arrow
\* functions of the module, so `this` is the module's exports object, to
\* which nothing is assigned
thisMembers == {}

Refine(sid, feedback, modelOk, answer) ==
    /\ IF sid = "" \/ feedback = ""
       THEN /\ response' = Respond("refine", 400, <<>>, "", 0, "json")
            /\ UNCHANGED activeSessions
       ELSE IF activeSessions[sid] = NoSession
       THEN /\ response' = Respond("refine", 404, <<>>, "", 0, "json")
            /\ UNCHANGED activeSessions
       ELSE IF demoMode \/ ~modelOk \/ ~ServiceValidSIR(answer)
               \/ ~translateSIRToCode(answer).success
       THEN /\ response' = Respond("refine", 500, <<>>, "", 0, "json")
            /\ UNCHANGED activeSessions
       ELSE LET c == translateSIRToCode(answer)
                sessionData == activeSessions[sid]
            IN  /\ sessionData.refinementCount < MaxRefinements
                /\ activeSessions' =
                      [activeSessions EXCEPT ![sid] =
                          [sessionData EXCEPT
                              !.sir = answer, !.code = c.code,
                              !.qaResult = validateFamily(answer, c.code),
                              !.refinementCount = @ + 1]]
                /\ response' =
                      Respond("refine", IF "calculateImprovementScore" \in thisMembers
                              THEN 200 ELSE 500,
                              <<>>, "", 0, "json")
    /\ UNCHANGED <<now, demoMode, workitemQueue, backend, jobCount>>
    /\ UNCHANGED <<qaVars, componentVars, concVars>>

(***************************************************************************)
(* createFamilyWithAPS and POST /v1/execute                                *)
(*   targetFolder  "" (missing), "local", "folder" (a BIM 360 folder URL), *)
(*                 "invalid" (any other string)                            *)
(*   outcome       of the submission to the Design Automation service:     *)
(*                 "ok", "error400" (an error with statusCode 400 or '400' *)
(*                 in its message: app bundle or activity not set up),     *)
(*                 "error" (any other failure)                             *)
(* The result: success, the workitem id, and the workitem data it stored   *)
(* in workitemQueue (NoWorkitem when it stored none).                      *)
(***************************************************************************)
SubmitOutcomes == {"ok", "error400", "error"}

IsConfigurationError(outcome) == outcome = "error400"

createFamilyWithAPS_FallbackOnAnyError(targetFolder, outcome, n) ==
    IF targetFolder = "local" /\ outcome = "ok"
    THEN [success |-> TRUE, workItemId |-> <<"real", n>>, simulated |-> FALSE,
          stored |-> WorkitemData("submitted", now, TRUE, "")]
    ELSE [success |-> TRUE, workItemId |-> <<"aps", n>>, simulated |-> TRUE,
          stored |-> WorkitemData("submitted", now, TRUE, "")]

createFamilyWithAPS(targetFolder, outcome, n) ==
    IF targetFolder = "local"
    THEN IF outcome = "ok"
         THEN [success |-> TRUE, workItemId |-> <<"real", n>>, simulated |-> FALSE,
               stored |-> WorkitemData("submitted", now, TRUE, "")]
         ELSE IF IsConfigurationError(outcome)
         THEN [success |-> FALSE, workItemId |-> <<>>, simulated |-> FALSE,
               stored |-> NoWorkitem]
         ELSE [success |-> TRUE, workItemId |-> <<"aps", n>>, simulated |-> TRUE,
               stored |-> WorkitemData("submitted", now, TRUE, "")]
    ELSE IF targetFolder = "folder" /\ outcome = "ok"
    THEN [success |-> TRUE, workItemId |-> <<"real", n>>, simulated |-> FALSE,
          stored |-> NoWorkitem]
    ELSE [success |-> FALSE, workItemId |-> <<>>, simulated |-> FALSE,
          stored |-> NoWorkitem]

QAGate_Open(sessionData) == TRUE

\* the check `!sessionData.qaResult.overallPass` of POST /v1/execute
QAGate(sessionData) == sessionData.qaResult.overallPass

Execute(sid, targetFolder, outcome) ==
    /\ IF sid = "" \/ targetFolder = ""
       THEN /\ response' = Respond("execute", 400, <<>>, "", 0, "Missing required fields")
            /\ UNCHANGED <<activeSessions, workitemQueue, backend, jobCount>>
       ELSE IF activeSessions[sid] = NoSession
       THEN /\ response' = Respond("execute", 404, <<>>, "", 0, "Session not found")
            /\ UNCHANGED <<activeSessions, workitemQueue, backend, jobCount>>
       ELSE IF ~QAGate(activeSessions[sid])
       THEN /\ response' =
                  Respond("execute", 400, <<>>, "", 0, "Family failed QA validation")
            /\ UNCHANGED <<activeSessions, workitemQueue, backend, jobCount>>
       ELSE LET aps == createFamilyWithAPS(targetFolder, outcome, jobCount + 1)
                w == aps.workItemId
                workitemData ==
                    IF aps.stored # NoWorkitem THEN aps.stored
                    ELSE WorkitemData("submitted", now, FALSE, "")
            IN  IF ~aps.success
                THEN /\ response' =
                           Respond("execute", 500, <<>>, "", 0, "Internal server error")
                     /\ UNCHANGED <<activeSessions, workitemQueue, backend, jobCount>>
                ELSE /\ jobCount < MaxJobs
                     /\ jobCount' = jobCount + 1
                     /\ backend' = IF aps.simulated THEN backend
                                   ELSE [backend EXCEPT ![w] = "pending"]
                     /\ workitemQueue' =
                           [workitemQueue EXCEPT ![w] =
                               [workitemData EXCEPT !.sessionId = sid]]
                     /\ activeSessions' =
                           [activeSessions EXCEPT ![sid].status = "executing",
                                                  ![sid].workitemId = w]
                     /\ response' = Respond("execute", 200, w, "submitted", 0, "json")
    /\ UNCHANGED <<now, demoMode>>
    /\ UNCHANGED <<qaVars, componentVars, concVars>>

(***************************************************************************)
(* Status polls.                                                           *)
(***************************************************************************)
SimulatedStatus_LateStart(elapsed) ==
    IF elapsed < 8 THEN "submitted"
    ELSE IF elapsed < totalSimulatedTime THEN "inprogress"
    ELSE "success"

\* the simulator of both status routes, at `elapsed` seconds
SimulatedStatus(elapsed) ==
    IF elapsed < 3 THEN "submitted"
    ELSE IF elapsed < totalSimulatedTime THEN "inprogress"
    ELSE "success"

SimulatedProgress(elapsed) ==
    IF elapsed < 3
    THEN Min(Percent(25), (elapsed * Percent(100)) \div totalSimulatedTime)
    ELSE IF elapsed < 8
    THEN Min(Percent(75),
             Percent(25) + ((elapsed - 3) * Percent(50)) \div (totalSimulatedTime - 3))
    ELSE IF elapsed < totalSimulatedTime
    THEN Min(Percent(95),
             Percent(75) + ((elapsed - 8) * Percent(20)) \div (totalSimulatedTime - 8))
    ELSE Percent(100)

\* getProgressFromStatus (of GET /status/:workitemId without a record)
getProgressFromStatus(status) ==
    IF status = "pending" THEN Percent(10)
    ELSE IF status = "inprogress" THEN Percent(50)
    ELSE IF status = "success" THEN Percent(100)
    ELSE IF status \in {"failed", "cancelled"} THEN Percent(0)
    ELSE Percent(25)

getProgressFromAPSStatus_DefaultComplete(status) ==
    IF status = "pending" THEN Percent(10)
    ELSE IF status = "inprogress" THEN Percent(50)
    ELSE IF status \in {"failed", "cancelled"} THEN Percent(0)
    ELSE Percent(100)

getProgressFromAPSStatus(status) ==
    IF status = "pending" THEN Percent(10)
    ELSE IF status = "inprogress" THEN Percent(50)
    ELSE IF status = "success" THEN Percent(100)
    ELSE IF status \in {"failed", "cancelled"} THEN Percent(0)
    ELSE Percent(25)

\* what a status call to the Design Automation service yields:
\* "ok" a body with the workitem's status, "nostatus" a body without a
\* status, "error" a failed call
StatusOutcomes == {"ok", "nostatus", "error"}

\* GET /v1/status/:workitemId
StatusV1(w, outcome) ==
    /\ IF workitemQueue[w] = NoWorkitem
       THEN /\ response' = Respond("status", 404, w, "", 0, "json")
            /\ UNCHANGED <<workitemQueue, activeSessions>>
       ELSE IF IsSimulated(w)
       THEN LET elapsed == now - workitemQueue[w].createdAt
                status == SimulatedStatus(elapsed)
                progress == SimulatedProgress(elapsed)
            IN  /\ workitemQueue' = [workitemQueue EXCEPT ![w].status = status,
                                                          ![w].progress = progress]
                /\ response' =
                      Respond("status", 200, w, status, progress, "json")
                /\ UNCHANGED activeSessions
       ELSE LET status == IF outcome = "ok" THEN backend[w] ELSE "unknown"
                progress == IF outcome = "error" THEN Percent(50)
                            ELSE getProgressFromAPSStatus(
                                    IF outcome = "ok" THEN backend[w] ELSE "undefined")
                sid == workitemQueue[w].sessionId
            IN  /\ workitemQueue' = [workitemQueue EXCEPT ![w].status = status]
                /\ activeSessions' =
                      IF sid # "" /\ activeSessions[sid] # NoSession
                      THEN [activeSessions EXCEPT ![sid].status = status]
                      ELSE activeSessions
                /\ response' =
                      Respond("status", 200, w, status, progress, "json")
    /\ UNCHANGED <<now, demoMode, backend, jobCount>>
    /\ UNCHANGED <<qaVars, componentVars, concVars>>

\* GET /status/:workitemId for an id 'workitem_<timestamp>_...': no record is
\* read; elapsed is the time since the timestamp in the id, in seconds
LegacyElapsed == {0, 31, 91, 181}

StatusLegacyDemo(elapsed) ==
    /\ response' =
          Respond("legacyStatus", 200, <<"workitem", 0>>,
                  IF elapsed > 180 THEN "success"
                  ELSE IF elapsed > 30 THEN "inprogress" ELSE "pending",
                  IF elapsed > 180 THEN Percent(100)
                  ELSE IF elapsed > 90 THEN Percent(75)
                  ELSE IF elapsed > 30 THEN Percent(50) ELSE Percent(25),
                  "json")
    /\ UNCHANGED <<now, demoMode, activeSessions, workitemQueue, backend, jobCount>>
    /\ UNCHANGED <<qaVars, componentVars, concVars>>

\* GET /status/:workitemId for the other ids
StatusLegacy(w, outcome) ==
    /\ IF IsSimulated(w)
       THEN IF workitemQueue[w] = NoWorkitem
            THEN /\ response' =
                       Respond("legacyStatus", 404, w, "", 0, "json")
                 /\ UNCHANGED workitemQueue
            ELSE LET elapsed == now - workitemQueue[w].createdAt
                     status == SimulatedStatus(elapsed)
                     progress == SimulatedProgress(elapsed)
                 IN  /\ workitemQueue' = [workitemQueue EXCEPT ![w].status = status,
                                                               ![w].progress = progress]
                     /\ response' = Respond("legacyStatus", 200, w,
                                            status, progress, "json")
       ELSE IF workitemQueue[w] # NoWorkitem /\ workitemQueue[w].isRealAPS
       THEN IF outcome = "error"
            THEN /\ response' = Respond("legacyStatus", 200, w,
                                        "unknown", Percent(50), "json")
                 /\ UNCHANGED workitemQueue
            ELSE LET status == IF outcome = "ok" THEN backend[w] ELSE "undefined"
                     progress == getProgressFromAPSStatus(status)
                 IN  /\ workitemQueue' =
                           [workitemQueue EXCEPT ![w].status =
                               IF outcome = "ok" THEN backend[w] ELSE "unknown"]
                     /\ response' = Respond("legacyStatus", 200, w,
                                            status, progress, "json")
       ELSE \* no record: the service is asked directly
            /\ IF outcome = "error" \/ backend[w] = "none"
               THEN response' =
                       Respond("legacyStatus", 500, w, "", 0, "json")
               ELSE LET st == IF outcome = "ok" THEN backend[w] ELSE "undefined"
                    IN  response' =
                           Respond("legacyStatus", 200, w,
                                   IF outcome = "ok" THEN backend[w] ELSE "unknown",
                                   getProgressFromStatus(st), "json")
            /\ UNCHANGED workitemQueue
    /\ UNCHANGED <<now, demoMode, activeSessions, backend, jobCount>>
    /\ UNCHANGED <<qaVars, componentVars, concVars>>

(***************************************************************************)
(* Downloads.  body: "bytes" a file body, "redirect" a redirect to a       *)
(* signed URL of the file, "json" anything else.                           *)
(***************************************************************************)
\* GET /v1/download/:workitemId; fetchOk: the fetch of the file succeeded
DownloadV1(w, fetchOk) ==
    /\ LET workitemData == workitemQueue[w]
           Answer(code, body) ==
               Respond("download", code, w,
                       IF code = 400 THEN workitemData.status ELSE "", 0, body)
       IN  response' =
              IF workitemData = NoWorkitem THEN Answer(404, "json")
              ELSE IF workitemData.status # "success" THEN Answer(400, "json")
              ELSE IF IsSimulated(w) THEN Answer(200, "bytes")
              ELSE IF ~workitemData.hasBucket THEN Answer(500, "json")
              ELSE IF fetchOk THEN Answer(200, "bytes")
              ELSE Answer(500, "json")
    /\ UNCHANGED <<now, demoMode, activeSessions, workitemQueue, backend, jobCount>>
    /\ UNCHANGED <<qaVars, componentVars, concVars>>

\* GET /download/:workitemId for an id 'workitem_...': the demo file
DownloadLegacyDemo ==
    /\ response' = Respond("legacyDownload", 200, <<"workitem", 0>>, "", 0, "bytes")
    /\ UNCHANGED <<now, demoMode, activeSessions, workitemQueue, backend, jobCount>>
    /\ UNCHANGED <<qaVars, componentVars, concVars>>

\* GET /download/:workitemId for the other ids; ok: the calls to the
\* storage and Design Automation services succeeded
DownloadLegacy(w, ok) ==
    /\ LET workitemData == workitemQueue[w]
           Answer(code, body) == Respond("legacyDownload", code, w, "", 0, body)
       IN  response' =
              IF IsSimulated(w)
              THEN IF workitemData = NoWorkitem THEN Answer(404, "json")
                   ELSE Answer(200, "bytes")
              ELSE IF workitemData # NoWorkitem /\ workitemData.isRealAPS
              THEN IF ok THEN Answer(302, "redirect") ELSE Answer(500, "json")
              ELSE IF ~ok \/ backend[w] = "none" THEN Answer(500, "json")
              ELSE IF backend[w] # "success" THEN Answer(400, "json")
              ELSE Answer(302, "redirect")
    /\ UNCHANGED <<now, demoMode, activeSessions, workitemQueue, backend, jobCount>>
    /\ UNCHANGED <<qaVars, componentVars, concVars>>

(***************************************************************************)
(* DELETE /v1/cancel/:workitemId                                           *)
(***************************************************************************)
Cancel(w, cancelOk) ==
    /\ IF "cancelWorkitem" \notin thisMembers
       THEN \* TypeError: this.cancelWorkitem is not a function
            /\ response' = Respond("cancel", 500, w, "", 0, "json")
            /\ UNCHANGED <<activeSessions, workitemQueue>>
       ELSE IF ~cancelOk
       THEN /\ response' = Respond("cancel", 500, w, "", 0, "json")
            /\ UNCHANGED <<activeSessions, workitemQueue>>
       ELSE LET sid == IF workitemQueue[w] = NoWorkitem THEN ""
                       ELSE workitemQueue[w].sessionId
            IN  /\ workitemQueue' =
                      IF workitemQueue[w] = NoWorkitem THEN workitemQueue
                      ELSE [workitemQueue EXCEPT ![w].status = "cancelled"]
                /\ activeSessions' =
                      IF sid # "" /\ activeSessions[sid] # NoSession
                      THEN [activeSessions EXCEPT ![sid].status = "cancelled"]
                      ELSE activeSessions
                /\ response' = Respond("cancel", 200, w, "cancelled", 0, "json")
    /\ UNCHANGED <<now, demoMode, backend, jobCount>>
    /\ UNCHANGED <<qaVars, componentVars, concVars>>

(***************************************************************************)
(* The environment: the clock, and the Design Automation service working   *)
(* on a submitted workitem.  The handlers read the clock only to take the  *)
(* difference new Date() - workitemData.createdAt of a simulated workitem, *)
(* so now counts the seconds from the registration of the first simulated  *)
(* workitem on.                                                            *)
(***************************************************************************)
Tick ==
    /\ now < MaxTime
    /\ \E w \in WorkitemIds : IsSimulated(w) /\ workitemQueue[w] # NoWorkitem
    /\ now' = now + 1
    /\ UNCHANGED <<demoMode, activeSessions, workitemQueue, backend, jobCount, response>>
    /\ UNCHANGED <<qaVars, componentVars, concVars>>

BackendAdvance(w, to) ==
    /\ \/ backend[w] = "pending" /\ to \in {"inprogress", "cancelled"}
       \/ backend[w] = "inprogress" /\ to \in {"success", "failed", "cancelled"}
    /\ backend' = [backend EXCEPT ![w] = to]
    /\ UNCHANGED <<now, demoMode, activeSessions, workitemQueue, jobCount, response>>
    /\ UNCHANGED <<qaVars, componentVars, concVars>>

(***************************************************************************)
(* The job tracker                                                         *)
(***************************************************************************)
TargetFolders == {"", "local", "folder", "invalid"}

Init == QAIdle /\ JobInit /\ ConvertIdle /\ UserIdle

\* the requests of the job tracker's runs that create sessions: one that
\* is answered with the demo SIR or a SIR passing QA, one with a SIR failing QA
TrackerAnswers ==
    {sir \in ModelSIRs : sir.familyMetadata.lodLevel = 300}

Next ==
    \/ \E sid \in SessionIds, modelOk \in BOOLEAN, answer \in TrackerAnswers :
          Generate(sid, "window", modelOk, answer)
    \/ \E sid \in SessionIds, authOk \in BOOLEAN : Create(sid, "window", authOk)
    \/ \E sid \in SessionIds, modelOk \in BOOLEAN, answer \in TrackerAnswers :
          Refine(sid, "wider", modelOk, answer)
    \/ \E sid \in SessionIds \cup {""}, targetFolder \in TargetFolders,
          outcome \in SubmitOutcomes :
          Execute(sid, targetFolder, outcome)
    \/ \E w \in WorkitemIds, outcome \in StatusOutcomes : StatusV1(w, outcome)
    \/ \E elapsed \in LegacyElapsed : StatusLegacyDemo(elapsed)
    \/ \E w \in WorkitemIds, outcome \in StatusOutcomes : StatusLegacy(w, outcome)
    \/ \E w \in WorkitemIds, fetchOk \in BOOLEAN : DownloadV1(w, fetchOk)
    \/ DownloadLegacyDemo
    \/ \E w \in WorkitemIds, ok \in BOOLEAN : DownloadLegacy(w, ok)
    \/ \E w \in WorkitemIds, cancelOk \in BOOLEAN : Cancel(w, cancelOk)
    \/ Tick
    \/ \E w \in WorkitemIds, to \in BackendStatuses : BackendAdvance(w, to)

Spec == Init /\ [][Next]_vars

(***************************************************************************)
(* Properties                                                              *)
(***************************************************************************)
\* a response to a status poll of a workitem of the registry's id space
IsPoll(r) ==
    r.op \in {"status", "legacyStatus"} /\ r.code = 200 /\ r.workitemId \in WorkitemIds

StatusVocabulary == {"submitted", "inprogress", "success", "failed", "cancelled"}

TerminalStatuses == {"success", "failed", "cancelled"}

\* C1: POST /v1/execute registers a workitem only for a session whose
\* stored QA result has overallPass = TRUE; for a session whose overallPass
\* is FALSE it answers 400 and leaves the workitem queue, the session and
\* the backend as they were.
C1_ExecuteRequiresQAPass ==
    [][/\ \A w \in WorkitemIds :
            (workitemQueue[w] = NoWorkitem /\ workitemQueue'[w] # NoWorkitem)
            => \E sid \in SessionIds :
                  /\ activeSessions[sid] # NoSession
                  /\ activeSessions[sid].qaResult.overallPass
                  /\ workitemQueue'[w].sessionId = sid
       /\ \A sid \in SessionIds, targetFolder \in TargetFolders \ {""},
             outcome \in SubmitOutcomes :
            (/\ activeSessions[sid] # NoSession
             /\ ~activeSessions[sid].qaResult.overallPass
             /\ Execute(sid, targetFolder, outcome))
            => /\ response'.code = 400
               /\ workitemQueue' = workitemQueue
               /\ activeSessions' = activeSessions
               /\ backend' = backend]_vars

\* an execute request was answered 400 because the session's QA result
\* does not pass, and nothing is registered
C1_Witness ==
    /\ response.op = "execute"
    /\ response.code = 400
    /\ response.body = "Family failed QA validation"
    /\ \E sid \in SessionIds :
          activeSessions[sid] # NoSession /\ ~activeSessions[sid].qaResult.overallPass
    /\ \A w \in WorkitemIds : workitemQueue[w] = NoWorkitem

\* C2: the overallPass of a validateFamily result is TRUE exactly when the
\* geometry, parameter and metadata validations all pass; the pass values
\* of the performance, compliance and flexing validations play no part.
\* (When validateFamily catches an error there are no validations and
\* overallPass is FALSE.)
C2_OverallPassIsCriticalThree ==
    qaResult # NoResult =>
        IF qaResult.error THEN ~qaResult.overallPass
        ELSE qaResult.overallPass <=>
                /\ qaResult.validations.geometryValidation.pass
                /\ qaResult.validations.parameterValidation.pass
                /\ qaResult.validations.metadataValidation.pass

\* a family passes overall although its performance validation fails
C2_Witness ==
    /\ qaResult # NoResult
    /\ ~qaResult.error
    /\ qaResult.overallPass
    /\ ~qaResult.validations.performanceValidation.pass

StatusRank(status) ==
    IF status = "submitted" THEN 0 ELSE IF status = "inprogress" THEN 1 ELSE 2

\* C3: a workitem's first recorded status is submitted, every change of
\* the recorded status moves forward in submitted -> inprogress ->
\* {success, failed, cancelled}, and a recorded success, failed or
\* cancelled is never changed.
C3_StatusOrder ==
    [][\A w \in WorkitemIds :
          /\ (workitemQueue[w] = NoWorkitem /\ workitemQueue'[w] # NoWorkitem)
             => workitemQueue'[w].status = "submitted"
          /\ (/\ workitemQueue[w] # NoWorkitem
              /\ workitemQueue'[w].status # workitemQueue[w].status)
             => /\ workitemQueue[w].status \notin TerminalStatuses
                /\ workitemQueue'[w].status \in StatusVocabulary
                /\ StatusRank(workitemQueue'[w].status)
                      > StatusRank(workitemQueue[w].status)]_vars

\* C4: a cancel request that the backend would accept, on a workitem
\* recorded as submitted or inprogress, records cancelled; on a workitem in
\* any other status it is rejected and the queue is unchanged.
C4_CancelFromActive ==
    [][\A w \in WorkitemIds :
          (workitemQueue[w] # NoWorkitem /\ Cancel(w, TRUE))
          => IF workitemQueue[w].status \in {"submitted", "inprogress"}
             THEN workitemQueue'[w].status = "cancelled"
             ELSE response'.code >= 400 /\ workitemQueue' = workitemQueue]_vars

\* C5: a status poll's response reports progress 100 if and only if it
\* reports the status success, for simulated and real workitems, on both
\* status routes.
C5_FullProgressIffSuccess ==
    (response.op \in {"status", "legacyStatus"} /\ response.code = 200)
    => (response.progress = Percent(100) <=> response.status = "success")

\* a poll of a real workitem answered success with progress 100
C5_Witness ==
    /\ response.op = "status"
    /\ response.code = 200
    /\ response.workitemId \in WorkitemIds
    /\ ~IsSimulated(response.workitemId)
    /\ response.status = "success"
    /\ response.progress = Percent(100)

\* C6: of two successive status polls of one workitem, the later never
\* reports less progress than the earlier.
C6_ProgressNeverDecreases ==
    [][(/\ IsPoll(response)
        /\ IsPoll(response')
        /\ response'.workitemId = response.workitemId)
       => response'.progress >= response.progress]_vars

\* the registration of a workitem by the step
Registers(w) == workitemQueue[w] = NoWorkitem /\ workitemQueue'[w] # NoWorkitem

Executable(sid) ==
    activeSessions[sid] # NoSession /\ activeSessions[sid].qaResult.overallPass

C8_FailedPollKeepsStatus ==
    [][\A w \in WorkitemIds :
          (/\ workitemQueue[w] # NoWorkitem
           /\ ~IsSimulated(w)
           /\ (StatusV1(w, "error") \/ StatusLegacy(w, "error")))
          => /\ response'.code = 200
             /\ response'.status = workitemQueue[w].status
             /\ workitemQueue'[w].status = workitemQueue[w].status]_vars

\* C9: the status in the response to a status poll of a registered
\* workitem, simulated or real, is one of submitted, inprogress, success,
\* failed, cancelled.
C9_StatusVocabulary == IsPoll(response) => response.status \in StatusVocabulary

\* C10: a download request for a workitem, on either download route, is
\* answered with the file's bytes only when the workitem's recorded status
\* is success.
C10_DownloadOnlyAfterSuccess ==
    (/\ response.op \in {"download", "legacyDownload"}
     /\ response.workitemId \in WorkitemIds
     /\ response.body = "bytes")
    => /\ workitemQueue[response.workitemId] # NoWorkitem
       /\ workitemQueue[response.workitemId].status = "success"

(***************************************************************************)
(* SpecLive: Spec with the clock advancing and every registered simulated  *)
(* workitem being polled again and again (on either status route).         *)
(***************************************************************************)
PollSimulated(w) ==
    /\ IsSimulated(w)
    /\ workitemQueue[w] # NoWorkitem
    /\ \E outcome \in StatusOutcomes : StatusV1(w, outcome) \/ StatusLegacy(w, outcome)

SpecLive ==
    /\ Init
    /\ [][Next]_vars
    /\ WF_vars(Tick)
    /\ \A w \in WorkitemIds : WF_vars(PollSimulated(w))

\* the status a simulated workitem is to report at `elapsed` seconds
TimelineStatus(elapsed) ==
    IF elapsed < 3 THEN "submitted" ELSE IF elapsed < 15 THEN "inprogress" ELSE "success"

\* C11: a poll of a simulated workitem at elapsed time t reports submitted
\* for t < 3, inprogress for 3 <= t < 15 and success for t >= 15, hence
\* never failed; once a poll has reported success every later poll reports
\* success; and when the clock advances and polling goes on, a poll
\* reporting success eventually happens.
C11_SimulatedTimeline ==
    /\ [][\A w \in WorkitemIds :
             (PollSimulated(w) /\ response' # response)
             => /\ response'.code = 200
                /\ response'.workitemId = w
                /\ response'.status = TimelineStatus(now - workitemQueue[w].createdAt)
                /\ (workitemQueue[w].status = "success" => response'.status = "success")]_vars
    /\ \A w \in WorkitemIds :
          [](workitemQueue[w] # NoWorkitem /\ IsSimulated(w)
             => <>(/\ IsPoll(response)
                   /\ response.workitemId = w
                   /\ response.status = "success"))

\* a poll of a simulated workitem, 15 seconds or more after its
\* registration, answered success
C11_Witness ==
    /\ IsPoll(response)
    /\ IsSimulated(response.workitemId)
    /\ response.status = "success"
    /\ now - workitemQueue[response.workitemId].createdAt >= 15

\* a poll of workitem w on either status route
Poll(w) ==
    \E outcome \in StatusOutcomes : StatusV1(w, outcome) \/ StatusLegacy(w, outcome)

\* C12: a poll answering submitted at elapsed time e reports the progress
\* min(20, 5 + 15 * e / 30), and a poll answering inprogress reports a
\* progress between 20 and 90.
C12_ProgressRamps ==
    [][\A w \in WorkitemIds :
          (Poll(w) /\ response' # response /\ response'.code = 200)
          => LET e == now - workitemQueue[w].createdAt IN
             /\ response'.status = "submitted"
                => response'.progress
                     = Min(Percent(20), Percent(5) + (e * Percent(15)) \div 30)
             /\ response'.status = "inprogress"
                => /\ response'.progress >= Percent(20)
                   /\ response'.progress <= Percent(90)]_vars

(***************************************************************************)
(* SpecService: the language-model service (BIMLLMService) called for two  *)
(* sessions.  conversationHistory is the service's own state: the routes   *)
(* of Spec do not read it (refineSIR puts its last turns into the text     *)
(* sent to the model, whose answer is an input here; only GET              *)
(* /v1/session/:sessionId, which is not in Spec, reports it), so Spec      *)
(* leaves it alone and the calls are specified here.  The clock is read    *)
(* for a turn's timestamp; successive turns read increasing values.        *)
(***************************************************************************)
MaxTurns == 11

HistoryLimit == 10

Turn(timestamp, userPrompt, sir) ==
    [timestamp |-> timestamp, userPrompt |-> userPrompt, sir |-> sir,
     type |-> "generation"]

updateConversationContext_DropNewest(history, userPrompt, sir) ==
    LET pushed == Append(history, Turn(now, userPrompt, sir))
    IN  IF Len(pushed) > HistoryLimit THEN SubSeq(pushed, 1, HistoryLimit) ELSE pushed

\* history.push(turn); if (history.length > 10) history.shift()
updateConversationContext(history, userPrompt, sir) ==
    LET pushed == Append(history, Turn(now, userPrompt, sir))
    IN  IF Len(pushed) > HistoryLimit THEN Tail(pushed) ELSE pushed

\* what the language model may answer to the service's own runs: a SIR that
\* passes validateSIR and one that does not
ServiceAnswers ==
    {sir \in ModelSIRs : sir.familyMetadata.lodLevel \in {300, 600}
                         /\ sir.geometryDefinition.extrusions[1].profile = 4}

\* bimLLMService.generateSIR(userPrompt, sessionId)
CallGenerateSIR(sid, userPrompt, modelOk, answer) ==
    LET g == generateSIR(userPrompt, modelOk, answer)
    IN  /\ svcResult' = [success |-> g.success, sir |-> g.sir, sessionId |-> sid,
                         isDemo |-> g.isDemo]
        /\ IF g.success /\ ~g.isDemo
           THEN /\ now < MaxTurns
                /\ conversationHistory' =
                      [conversationHistory EXCEPT
                          ![sid] = updateConversationContext(@, userPrompt, g.sir)]
                /\ now' = now + 1
           ELSE UNCHANGED <<conversationHistory, now>>
        /\ UNCHANGED <<demoMode, activeSessions, workitemQueue, backend, jobCount,
                       response, family, codeResult, convVars, concVars,
                       userVars>>
        /\ UNCHANGED qaVars

\* every prompt kind is tried on the calls the model does not answer; the
\* answered calls carry the prompt "window"
NextService ==
    \E sid \in ServiceSessionIds, userPrompt \in Prompts, modelOk \in BOOLEAN,
       answer \in ServiceAnswers :
       CallGenerateSIR(sid, IF modelOk THEN "window" ELSE userPrompt, modelOk, answer)

SpecService == Init /\ [][NextService]_vars

\* the model call, the parse or the structural validation fails
GenerationFails(modelOk, answer) == ~modelOk \/ ~ServiceValidSIR(answer)

\* C13: generateSIR returns success for every prompt, and whenever the
\* model call, the response parse or the structural validation fails, the
\* SIR it returns is the demo SIR of the prompt, tagged isDemo.
C13_GenerateNeverFails ==
    [][\A sid \in ServiceSessionIds, userPrompt \in Prompts, modelOk \in BOOLEAN,
          answer \in ServiceAnswers :
          CallGenerateSIR(sid, userPrompt, modelOk, answer)
          => /\ svcResult'.success
             /\ GenerationFails(modelOk, answer)
                => /\ svcResult'.isDemo
                   /\ svcResult'.sir = generateDemoSIR(userPrompt)]_vars

\* with the model available, a call whose answer was rejected by the
\* structural validation returned the demo SIR
C13_Witness ==
    /\ ~demoMode
    /\ svcResult.success
    /\ svcResult.isDemo
    /\ svcResult.sir = generateDemoSIR("window")

\* C14: each session's history holds at most 10 turns, and a generate call
\* that appends a turn keeps the turns in append order: below 10 turns the
\* new turn is added at the end, at 10 turns the oldest turn is removed and
\* the new one added at the end.
C14_HistoryKeepsLastTen ==
    /\ [](\A s \in ServiceSessionIds : Len(conversationHistory[s]) <= 10)
    /\ [][\A s \in ServiceSessionIds :
             (\E answer \in ServiceAnswers :
                 CallGenerateSIR(s, "window", TRUE, answer) /\ ~svcResult'.isDemo)
             => LET old == conversationHistory[s]
                    new == conversationHistory'[s]
                    kept == IF Len(old) < 10 THEN old ELSE SubSeq(old, 2, Len(old))
                IN  /\ Len(new) = Len(kept) + 1
                    /\ SubSeq(new, 1, Len(kept)) = kept
                    /\ new[Len(new)].timestamp = now
                    /\ new[Len(new)].sir = svcResult'.sir
                    /\ \A i \in 1..Len(kept) : new[i].timestamp < now]_vars

\* eleven turns were appended to the history of s1 and none to that of s2:
\* the history of s1 holds the turns of the clock readings 1..10
C14_Witness ==
    /\ now = 11
    /\ Len(conversationHistory["s2"]) = 0
    /\ Len(conversationHistory["s1"]) = 10
    /\ conversationHistory["s1"][1].timestamp = 1
    /\ conversationHistory["s1"][10].timestamp = 10

\* C15: a generateSIR call that returns success appends exactly one turn
\* {timestamp, prompt, SIR} to the history of its session, and leaves the
\* history of every other session as it was.
C15_SuccessAppendsOneTurn ==
    [][\A sid \in ServiceSessionIds, userPrompt \in Prompts, modelOk \in BOOLEAN,
          answer \in ServiceAnswers :
          (CallGenerateSIR(sid, userPrompt, modelOk, answer) /\ svcResult'.success)
          => /\ \A s \in ServiceSessionIds \ {sid} :
                   conversationHistory'[s] = conversationHistory[s]
             /\ LET new == conversationHistory'[sid]
                IN  /\ new # conversationHistory[sid]
                    /\ new[Len(new)] = Turn(now, userPrompt, svcResult'.sir)]_vars

(***************************************************************************)
(* SpecRefinement: the sessions of POST /v1/generate and POST /v1/refine,  *)
(* and a stored Family refined through POST /api/families/:id/refinements. *)
(***************************************************************************)
MaxFamilyVersion == 4

RefinementPrompts == {"wider", "taller"}

addRefinement_KeepVersion(doc, prompt) ==
    [doc EXCEPT !.refinements = Append(@, [prompt |-> prompt, timestamp |-> now])]

\* Family.addRefinement: this.refinements.push(...); this.version += 1
addRefinement(doc, prompt) ==
    [doc EXCEPT !.refinements = Append(@, [prompt |-> prompt, timestamp |-> now]),
                !.version = @ + 1]

\* POST /api/families/:id/refinements: 404 when the family is not found,
\* 500 when save() rejects (the stored document is then left as it was)
AddRefinement(found, prompt, saveOk) ==
    /\ IF ~found
       THEN /\ response' = Respond("addRefinement", 404, <<>>, "", 0, "json")
            /\ UNCHANGED family
       ELSE IF ~saveOk
       THEN /\ response' = Respond("addRefinement", 500, <<>>, "", 0, "json")
            /\ UNCHANGED family
       ELSE /\ family.version < MaxFamilyVersion
            /\ family' = addRefinement(family, prompt)
            /\ response' = Respond("addRefinement", 200, <<>>, "", 0, "json")
    /\ UNCHANGED <<now, demoMode, activeSessions, workitemQueue, backend, jobCount>>
    /\ UNCHANGED <<qaVars, svcVars, codeResult, convVars, concVars, userVars>>

NextRefinement ==
    \/ \E sid \in SessionIds, modelOk \in BOOLEAN, answer \in TrackerAnswers :
          Generate(sid, "window", modelOk, answer)
    \/ \E sid \in SessionIds \cup {""}, modelOk \in BOOLEAN, answer \in ModelSIRs :
          Refine(sid, "wider", modelOk, answer)
    \/ \E found \in BOOLEAN, prompt \in RefinementPrompts, saveOk \in BOOLEAN :
          AddRefinement(found, prompt, saveOk)

SpecRefinement == Init /\ [][NextRefinement]_vars

\* the refinement counter of a session (absent counts as 0)
RefinementCounter(sessions, sid) ==
    IF sid \notin SessionIds \/ sessions[sid] = NoSession
    THEN 0
    ELSE sessions[sid].refinementCount

ValidationNames ==
    {"geometryValidation", "parameterValidation", "performanceValidation",
     "complianceValidation", "flexingValidation", "metadataValidation"}

\* the per-pass results were computed
Validated == qaResult # NoResult /\ ~qaResult.error

\* C17: the score of every per-pass validation result is between 0 and 100.
C17_ScoreWithinRange ==
    Validated =>
        \A v \in ValidationNames :
            /\ qaResult.validations[v].score >= 0
            /\ qaResult.validations[v].score <= 100

\* C18: in every per-pass validation result, pass is false whenever there
\* is an issue, and a result with warnings and no issue has pass true.
C18_PassIffNoIssues ==
    Validated =>
        \A v \in ValidationNames :
            LET r == qaResult.validations[v]
            IN  /\ r.issues > 0 => ~r.pass
                /\ (r.issues = 0 /\ r.warnings > 0) => r.pass

\* a validation in which one pass found warnings only and passed, and
\* another found an issue and failed
C18_Witness ==
    /\ Validated
    /\ \E v \in ValidationNames :
          /\ qaResult.validations[v].issues = 0
          /\ qaResult.validations[v].warnings > 0
          /\ qaResult.validations[v].pass
    /\ \E v \in ValidationNames :
          /\ qaResult.validations[v].issues > 0
          /\ ~qaResult.validations[v].pass

(***************************************************************************)
(* SpecInterpreter: translateSIRToCode on the SIRs of a bounded set: SIRs  *)
(* whose sections the code generators can read (a category, extrusions    *)
(* with start and end points, no reference planes and no constraints),     *)
(* and the same SIRs with required sections taken away.                    *)
(***************************************************************************)
Translatable ==
    {sir \in SIRs \ PartialSIRs :
        /\ sir.familyMetadata.category # ""
        /\ sir.geometryDefinition.referencePlanes = <<>>
        /\ sir.geometryDefinition.constraints = <<>>
        /\ \A i \in 1..Len(sir.geometryDefinition.extrusions) :
              sir.geometryDefinition.extrusions[i].hasPoints}

\* sir without some of its three required sections
PartialVariants(sir) ==
    {[sir EXCEPT !.hasFamilyMetadata = m, !.hasGeometryDefinition = g,
                 !.hasParameters = p] :
        m \in BOOLEAN, g \in BOOLEAN, p \in BOOLEAN} \ {sir}

InterpreterSIRs ==
    Translatable
    \cup PartialSIRs
    \cup UNION {PartialVariants(sir) : sir \in ModelSIRs}
    \cup UNION {PartialVariants(generateDemoSIR(prompt)) : prompt \in Prompts}

InitInterpreter ==
    /\ qaSir \in InterpreterSIRs
    /\ qaCode = Code(0, 0, 0)
    /\ qaResult = NoResult
    /\ JobInit
    /\ ConvertIdle
    /\ UserIdle

\* sirInterpreter.translateSIRToCode(sir)
Translate ==
    /\ codeResult = NoCodeResult
    /\ codeResult' = translateSIRToCode(qaSir)
    /\ UNCHANGED <<qaVars, jobVars, svcVars, family, convVars, concVars, userVars>>

NextInterpreter == Translate

SpecInterpreter == InitInterpreter /\ [][NextInterpreter]_vars

\* qaSir lacks familyMetadata, geometryDefinition or parameters
LacksRequiredSection ==
    ~qaSir.hasFamilyMetadata \/ ~qaSir.hasGeometryDefinition \/ ~qaSir.hasParameters

\* C19: translateSIRToCode applied to a SIR that lacks familyMetadata,
\* geometryDefinition or parameters reports the validation error of a
\* missing section, returns no code and has generated no code section.
C19_PartialSIRGivesNoCode ==
    (codeResult # NoCodeResult /\ LacksRequiredSection)
    => /\ ~codeResult.success
       /\ codeResult.error \in {"Missing familyMetadata in SIR",
                                "Missing geometryDefinition in SIR",
                                "Missing parameters in SIR"}
       /\ codeResult.code = <<>>
       /\ codeResult.sections = {}

\* translateSIRToCode has answered for a SIR without its geometryDefinition
C19_Witness ==
    /\ codeResult # NoCodeResult
    /\ qaSir.hasFamilyMetadata
    /\ ~qaSir.hasGeometryDefinition
    /\ codeResult.error = "Missing geometryDefinition in SIR"

\* C20: whenever execute submits a job for a session (it passed the checks
\* and called createFamilyWithAPS), the code stored with the session's SIR
\* is the code emitted from that SIR, and the stored QA result is the QA
\* Gateway's result on that SIR and that code.
C20_SubmissionAfterEmissionAndQA ==
    [][\A sid \in SessionIds, targetFolder \in TargetFolders,
          outcome \in SubmitOutcomes :
          (Execute(sid, targetFolder, outcome) /\ response'.code \in {200, 500})
          => LET sessionData == activeSessions[sid]
             IN  /\ translateSIRToCode(sessionData.sir).success
                 /\ sessionData.code = translateSIRToCode(sessionData.sir).code
                 /\ sessionData.qaResult
                       = validateFamily(sessionData.sir, sessionData.code)]_vars

(***************************************************************************)
(* SpecConvert: convertSIRToAPSParams on the SIRs of a bounded set.        *)
(*                                                                         *)
(* A name is a sequence of words; toLowerCase maps each word to its lower  *)
(* case, and includes(k) finds the keyword k among the lowered words.  A   *)
(* number field that is undefined is Undef; dimensions are in the units    *)
(* the SIR gives them in.                                                  *)
(***************************************************************************)
Words ==
    {"Sliding", "sliding", "Fixed", "FIXED", "Window", "Windows", "Doors",
     "Generated", "Generic", "Width", "WIDTH", "width", "Height", "height",
     "Depth", "Glass", "Frame"}

toLowerCase(word) ==
    CASE word \in {"Sliding", "sliding"} -> "sliding"
      [] word \in {"Fixed", "FIXED"} -> "fixed"
      [] word = "Window" -> "window"
      [] word = "Windows" -> "windows"
      [] word = "Doors" -> "doors"
      [] word = "Generated" -> "generated"
      [] word = "Generic" -> "generic"
      [] word \in {"Width", "WIDTH", "width"} -> "width"
      [] word \in {"Height", "height"} -> "height"
      [] word = "Depth" -> "depth"
      [] word = "Glass" -> "glass"
      [] word = "Frame" -> "frame"

\* the lowered words that contain the keyword as a substring
Containing(keyword) ==
    CASE keyword = "window" -> {"window", "windows"}
      [] keyword = "door" -> {"doors"}
      [] OTHER -> {keyword}

\* name.toLowerCase().includes(keyword)
includes(name, keyword) ==
    \E i \in 1..Len(name) : toLowerCase(name[i]) \in Containing(keyword)

\* value || fallback
OrElse(value, fallback) == IF value = Undef \/ value = 0 THEN fallback ELSE value

APSParameter(hasName, name, defaultValue) ==
    [hasName |-> hasName, name |-> name, defaultValue |-> defaultValue]

\* familyParameters.find(p => p.name.toLowerCase().includes(keyword)): the
\* callback throws on a parameter without a name met before the first match
find(familyParameters, keyword) ==
    LET RECURSIVE Scan(_)
        Scan(i) ==
            IF i > Len(familyParameters)
            THEN [threw |-> FALSE, found |-> FALSE, defaultValue |-> Undef]
            ELSE IF ~familyParameters[i].hasName
            THEN [threw |-> TRUE, found |-> FALSE, defaultValue |-> Undef]
            ELSE IF includes(familyParameters[i].name, keyword)
            THEN [threw |-> FALSE, found |-> TRUE,
                  defaultValue |-> familyParameters[i].defaultValue]
            ELSE Scan(i + 1)
    IN  Scan(1)

Material(hasName, name) == [hasName |-> hasName, name |-> name]

\* materials.find(m => m.name.toLowerCase().includes(k1) || ...includes(k2))?.name
\* || 'Default'
findMaterial(materials, keywords) ==
    LET RECURSIVE Scan(_)
        Scan(i) ==
            IF i > Len(materials) THEN [threw |-> FALSE, name |-> <<"Default">>]
            ELSE IF ~materials[i].hasName THEN [threw |-> TRUE, name |-> <<>>]
            ELSE IF \E k \in keywords : includes(materials[i].name, k)
            THEN [threw |-> FALSE,
                  name |-> IF materials[i].name = <<>> THEN <<"Default">>
                           ELSE materials[i].name]
            ELSE Scan(i + 1)
    IN  Scan(1)

\* the fields of a SIR that convertSIRToAPSParams reads; mainProfile is the
\* number of points of the first extrusion's profile, Undef when the
\* extrusion has no profile, and extrusions is their number
APSSir(hasMeta, familyName, category, hasGeometry, extrusions, mainProfile, materials, hasParameters, familyParameters) ==
    [hasFamilyMetadata |-> hasMeta, familyName |-> familyName, category |-> category,
     hasGeometryDefinition |-> hasGeometry,
     extrusions |-> extrusions, mainProfile |-> mainProfile, materials |-> materials,
     hasParameters |-> hasParameters, familyParameters |-> familyParameters]

\* the catch block's parameters
DefaultAPSParams ==
    [FileName |-> <<"Generated", "Family">>, WindowStyle |-> "DoubleHungWindow",
     GlassPaneMaterial |-> <<"Default">>, SashMaterial |-> <<"Default">>,
     WindowWidth |-> 2, WindowHeight |-> 4, caught |-> TRUE]

\* the window style name of a window type number
windowStyleName(windowType) ==
    IF windowType = 2 THEN "SlidingDoubleWindow"
    ELSE IF windowType = 3 THEN "FixedWindow"
    ELSE "DoubleHungWindow"

\* the window type number: 1 on every path
windowType(sir) == 1

convertSIRToAPSParams(sir) ==
    LET familyName == IF sir.familyName = <<>> THEN <<"Generated", "Family">>
                      ELSE sir.familyName
        category == IF sir.category = <<>> THEN <<"Generic">> ELSE sir.category
        \* sir.geometryDefinition.extrusions of a SIR without geometry;
        \* profile[1].x and profile[2].y of a profile with fewer than 3 points
        geometryThrows ==
            /\ ~includes(category, "door")
            /\ includes(category, "window")
            /\ \/ ~sir.hasGeometryDefinition
               \/ /\ sir.extrusions > 0
                  /\ sir.mainProfile # Undef
                  /\ sir.mainProfile < 3
        glassPaneMaterial == findMaterial(sir.materials, {"glass"})
        sashMaterial == findMaterial(sir.materials, {"sash", "frame"})
        widthParam == find(sir.familyParameters, "width")
        heightParam == find(sir.familyParameters, "height")
    IN  IF ~sir.hasFamilyMetadata \/ geometryThrows
           \/ glassPaneMaterial.threw \/ sashMaterial.threw
           \/ ~sir.hasParameters \/ widthParam.threw \/ heightParam.threw
        THEN DefaultAPSParams
        ELSE [FileName |-> familyName,
              WindowStyle |-> windowStyleName(windowType(sir)),
              GlassPaneMaterial |-> glassPaneMaterial.name,
              SashMaterial |-> sashMaterial.name,
              WindowWidth |-> OrElse(widthParam.defaultValue, 200),
              WindowHeight |-> OrElse(heightParam.defaultValue, 1100),
              caught |-> FALSE]

FamilyNames ==
    {<<>>, <<"Generated", "Window">>, <<"Sliding", "Window">>, <<"FIXED", "Window">>}

Categories == {<<>>, <<"Windows">>, <<"Doors">>, <<"Generic">>, <<"sliding", "Windows">>}

DefaultValues == {Undef, 0, 3, 5}

APSParameterKinds ==
    {APSParameter(TRUE, <<"Width">>, v) : v \in DefaultValues}
    \cup {APSParameter(TRUE, <<"Window", "WIDTH">>, 5),
          APSParameter(TRUE, <<"Height">>, 3), APSParameter(TRUE, <<"height">>, 0),
          APSParameter(TRUE, <<"Depth">>, 5), APSParameter(FALSE, <<>>, 3)}

MaxAPSParameters == 2

APSParameterLists == SeqsUpTo(APSParameterKinds, MaxAPSParameters)

MaterialLists ==
    {<<>>, <<Material(TRUE, <<"Glass">>), Material(TRUE, <<"Frame">>)>>,
     <<Material(FALSE, <<>>)>>}

APSSirs ==
    {APSSir(TRUE, n, c, TRUE, e[1], e[2], ms, TRUE, ps) :
        n \in FamilyNames, c \in Categories,
        e \in {<<0, Undef>>, <<1, Undef>>, <<1, 2>>, <<1, 4>>},
        ms \in MaterialLists, ps \in APSParameterLists}
    \cup {APSSir(FALSE, <<>>, <<>>, TRUE, 1, 4, <<>>, TRUE, <<>>),
          APSSir(TRUE, <<"Generated", "Window">>, <<"Windows">>, FALSE, 0, Undef, <<>>,
                 TRUE, <<>>),
          APSSir(TRUE, <<"Generated", "Window">>, <<"Windows">>, TRUE, 1, 4, <<>>,
                 FALSE, <<>>)}

InitConvert ==
    /\ apsSir \in APSSirs
    /\ apsParams = NoAPSParams
    /\ QAIdle
    /\ JobInit
    /\ UserIdle

\* convertSIRToAPSParams(sessionData.sir)
Convert ==
    /\ apsParams = NoAPSParams
    /\ apsParams' = convertSIRToAPSParams(apsSir)
    /\ UNCHANGED <<apsSir, qaVars, jobVars, svcVars, family, codeResult, concVars,
                   userVars>>

NextConvert == Convert

SpecConvert == InitConvert /\ [][NextConvert]_vars

\* the SIR's family name or category contains the keyword
NameOrCategoryContains(keyword) ==
    includes(apsSir.familyName, keyword) \/ includes(apsSir.category, keyword)

\* C21: the window style submitted is the sliding style when the SIR's
\* family name or category contains "sliding", the fixed style when it
\* contains "fixed", and double-hung otherwise.
C21_WindowStyleFromName ==
    apsParams # NoAPSParams =>
        apsParams.WindowStyle =
            IF NameOrCategoryContains("sliding") THEN "SlidingDoubleWindow"
            ELSE IF NameOrCategoryContains("fixed") THEN "FixedWindow"
            ELSE "DoubleHungWindow"

\* the default value of the first family parameter whose name contains the
\* keyword, Undef when the SIR has none
FirstDefaultValue(keyword) ==
    IF \E i \in 1..Len(apsSir.familyParameters) :
          includes(apsSir.familyParameters[i].name, keyword)
    THEN LET first == CHOOSE i \in 1..Len(apsSir.familyParameters) :
                         /\ includes(apsSir.familyParameters[i].name, keyword)
                         /\ \A j \in 1..(i - 1) :
                               ~includes(apsSir.familyParameters[j].name, keyword)
         IN  apsSir.familyParameters[first].defaultValue
    ELSE Undef

HasParameterNamed(keyword) ==
    \E i \in 1..Len(apsSir.familyParameters) :
        includes(apsSir.familyParameters[i].name, keyword)

\* C22: the width and height submitted equal the default values of the
\* first family parameters whose names contain "width" and "height", and
\* are 2 and 4 when the SIR has no such parameter.
C22_DimensionsFromParameters ==
    apsParams # NoAPSParams =>
        /\ apsParams.WindowWidth =
              IF HasParameterNamed("width") THEN FirstDefaultValue("width") ELSE 2
        /\ apsParams.WindowHeight =
              IF HasParameterNamed("height") THEN FirstDefaultValue("height") ELSE 4

\* qaSir contains an extrusion whose profile has fewer than 3 points
HasShortProfile ==
    /\ qaSir.hasGeometryDefinition
    /\ \E i \in 1..Len(qaSir.geometryDefinition.extrusions) :
          /\ qaSir.geometryDefinition.extrusions[i].profile # Undef
          /\ qaSir.geometryDefinition.extrusions[i].profile < 3

\* C23: validateGeometry returns pass = false and at least one issue for
\* every SIR that contains an extrusion whose profile has fewer than 3 points.
C23_ShortProfileFailsGeometry ==
    (Validated /\ HasShortProfile)
    => /\ ~qaResult.validations.geometryValidation.pass
       /\ qaResult.validations.geometryValidation.issues > 0

\* a validated SIR whose only extrusion has a two-point profile, a start
\* and an end point and a height: the profile is the only geometry issue
C23_Witness ==
    /\ Validated
    /\ qaSir.hasGeometryDefinition
    /\ qaSir.geometryDefinition.extrusions = <<Extrusion(2, TRUE, 0, 100)>>
    /\ qaResult.validations.geometryValidation.issues = 1
    /\ ~qaResult.validations.geometryValidation.pass

\* C24: a POST /v1/refine request answered with an error status leaves the
\* session's stored SIR, code, QA result and refinement counter as they were.
C24_FailedRefineKeepsSession ==
    [][\A sid \in SessionIds \cup {""}, modelOk \in BOOLEAN, answer \in ModelSIRs :
          (Refine(sid, "wider", modelOk, answer) /\ response'.code >= 400)
          => activeSessions' = activeSessions]_vars

(***************************************************************************)
(* Overlapping requests on one session.  A handler runs without            *)
(* interruption up to an await; while it is suspended the other handlers   *)
(* run.  POST /v1/refine reads the session before its awaits (the model    *)
(* call, the translation, the QA validation) and stores after them; POST   *)
(* /v1/execute reads the session, checks the QA result and derives the     *)
(* parameters before its one await (createFamilyWithAPS) and writes the    *)
(* session object it holds back after it; POST /v1/generate reads nothing  *)
(* of the session and stores after its awaits.  A session is an object:    *)
(* sessionObjects keeps every object made, sessionRef names the one the    *)
(* map holds, requests[r].ref the one a suspended handler holds.           *)
(***************************************************************************)
MaxObjects == 3

ConcurrentSession == "s1"

\* activeSessions.set(sessionId, <the object at ref>)
SetSession(objects, ref) ==
    [activeSessions EXCEPT ![ConcurrentSession] = objects[ref]]

Finish(r, code) == [requests[r] EXCEPT !.pc = "done", !.code = code]

\* a store while an execute request is suspended is noted in that request
NoteStore(reqs) ==
    [q \in RequestIds |->
        IF reqs[q].op = "execute" /\ reqs[q].pc = "awaiting"
        THEN [reqs[q] EXCEPT !.overlapped = TRUE] ELSE reqs[q]]

\* requests take the slots in order
NextSlot(r) ==
    /\ requests[r].pc = "idle"
    /\ IF r = 1 THEN TRUE ELSE requests[r - 1].pc # "idle"

\* POST /v1/generate with both fields, at its store
GenerateStore(prompt, modelOk, answer) ==
    LET g == generateSIR(prompt, modelOk, answer)
        c == IF g.isDemo THEN [success |-> TRUE, code |-> DemoCode]
             ELSE translateSIRToCode(g.sir)
        qa == IF g.isDemo THEN DemoQA ELSE validateFamily(g.sir, c.code)
    IN  /\ IF ~c.success
           THEN /\ response' = Respond("generate", 500, <<>>, "", 0, "json")
                /\ UNCHANGED <<activeSessions, concVars>>
           ELSE /\ Len(sessionObjects) < MaxObjects
                /\ sessionObjects' =
                      Append(sessionObjects,
                             SessionData(g.sir, c.code, qa, "ready_for_execution"))
                /\ sessionRef' = Len(sessionObjects')
                /\ activeSessions' = SetSession(sessionObjects', sessionRef')
                /\ refineLog' = <<>>
                /\ requests' = NoteStore(requests)
                /\ response' = Respond("generate", 200, <<>>, "", 0, "json")
        /\ UNCHANGED <<now, demoMode, workitemQueue, backend, jobCount>>
        /\ UNCHANGED <<qaVars, componentVars>>

\* POST /v1/refine up to its first await
RefineBegin(r) ==
    /\ NextSlot(r)
    /\ IF sessionRef = 0
       THEN /\ requests' = [requests EXCEPT ![r] =
                               [Finish(r, 404) EXCEPT !.op = "refine"]]
            /\ response' = Respond("refine", 404, <<>>, "", 0, "json")
       ELSE /\ requests' = [requests EXCEPT ![r] =
                               [@ EXCEPT !.op = "refine", !.pc = "awaiting",
                                         !.ref = sessionRef]]
            /\ UNCHANGED response
    /\ UNCHANGED <<sessionObjects, sessionRef, refineLog>>
    /\ UNCHANGED <<now, demoMode, activeSessions, workitemQueue, backend, jobCount>>
    /\ UNCHANGED <<qaVars, componentVars>>

\* POST /v1/refine after its awaits: the store spreads the object read at
\* the start and counts from its refinementCount
RefineStore(r, modelOk, answer) ==
    /\ requests[r].op = "refine" /\ requests[r].pc = "awaiting"
    /\ IF demoMode \/ ~modelOk \/ ~ServiceValidSIR(answer)
          \/ ~translateSIRToCode(answer).success
       THEN /\ requests' = [requests EXCEPT ![r] = Finish(r, 500)]
            /\ UNCHANGED <<activeSessions, sessionObjects, sessionRef, refineLog>>
       ELSE LET c == translateSIRToCode(answer)
                sessionData == sessionObjects[requests[r].ref]
            IN  /\ Len(sessionObjects) < MaxObjects
                /\ sessionObjects' =
                      Append(sessionObjects,
                             [sessionData EXCEPT
                                 !.sir = answer, !.code = c.code,
                                 !.qaResult = validateFamily(answer, c.code),
                                 !.refinementCount = @ + 1])
                /\ sessionRef' = Len(sessionObjects')
                /\ activeSessions' = SetSession(sessionObjects', sessionRef')
                /\ refineLog' = Append(refineLog, answer)
                /\ requests' =
                      [NoteStore(requests) EXCEPT ![r] =
                          Finish(r, IF "calculateImprovementScore" \in thisMembers
                                    THEN 200 ELSE 500)]
    /\ response' = Respond("refine", 500, <<>>, "", 0, "json")
    /\ UNCHANGED <<now, demoMode, workitemQueue, backend, jobCount>>
    /\ UNCHANGED <<qaVars, componentVars>>

\* what convertSIRToAPSParams(sessionData.sir) is derived from: the SIR and
\* the overallPass stored with it at that moment
Derivation(sessionData) ==
    [sir |-> sessionData.sir, overallPass |-> sessionData.qaResult.overallPass]

\* POST /v1/execute up to its await, with both fields
ExecuteBegin(r, targetFolder) ==
    /\ NextSlot(r)
    /\ IF sessionRef = 0
       THEN /\ requests' = [requests EXCEPT ![r] =
                               [Finish(r, 404) EXCEPT !.op = "execute"]]
            /\ response' =
                  Respond("execute", 404, <<>>, "", 0, "Session not found")
       ELSE IF ~QAGate(sessionObjects[sessionRef])
       THEN /\ requests' = [requests EXCEPT ![r] =
                               [Finish(r, 400) EXCEPT !.op = "execute"]]
            /\ response' =
                  Respond("execute", 400, <<>>, "", 0, "Family failed QA validation")
       ELSE /\ requests' =
                  [requests EXCEPT ![r] =
                      [@ EXCEPT !.op = "execute", !.pc = "awaiting",
                                !.ref = sessionRef, !.targetFolder = targetFolder,
                                !.apsParams = Derivation(sessionObjects[sessionRef])]]
            /\ UNCHANGED response
    /\ UNCHANGED <<sessionObjects, sessionRef, refineLog>>
    /\ UNCHANGED <<now, demoMode, activeSessions, workitemQueue, backend, jobCount>>
    /\ UNCHANGED <<qaVars, componentVars>>

SubmittedParams_Reread(request, stored) == Derivation(stored)

\* the parameters createFamilyWithAPS submits: the `apsParams` the handler
\* computed before the await (stored: the session the map holds when the
\* call returns)
SubmittedParams(request, stored) == request.apsParams

\* POST /v1/execute after its await: the workitem is recorded, the object
\* read at the start is marked 'executing' and put back into the map
ExecuteFinish(r, outcome) ==
    /\ requests[r].op = "execute" /\ requests[r].pc = "awaiting"
    /\ LET aps == createFamilyWithAPS(requests[r].targetFolder, outcome, jobCount + 1)
           w == aps.workItemId
           workitemData ==
               IF aps.stored # NoWorkitem THEN aps.stored
               ELSE WorkitemData("submitted", now, FALSE, "")
       IN  IF ~aps.success
           THEN /\ requests' = [requests EXCEPT ![r] = Finish(r, 500)]
                /\ response' =
                      Respond("execute", 500, <<>>, "", 0, "Internal server error")
                /\ UNCHANGED <<activeSessions, workitemQueue, backend, jobCount,
                               sessionObjects, sessionRef>>
           ELSE /\ jobCount < MaxJobs
                /\ jobCount' = jobCount + 1
                /\ backend' = IF aps.simulated THEN backend
                              ELSE [backend EXCEPT ![w] = "pending"]
                /\ workitemQueue' =
                      [workitemQueue EXCEPT ![w] =
                          [workitemData EXCEPT !.sessionId = ConcurrentSession]]
                /\ sessionObjects' =
                      [sessionObjects EXCEPT ![requests[r].ref] =
                          [@ EXCEPT !.status = "executing", !.workitemId = w]]
                /\ sessionRef' = requests[r].ref
                /\ activeSessions' = SetSession(sessionObjects', sessionRef')
                /\ requests' =
                      [requests EXCEPT ![r] =
                          [Finish(r, 200) EXCEPT
                              !.submitted =
                                  SubmittedParams(requests[r],
                                                  sessionObjects[sessionRef])]]
                /\ response' = Respond("execute", 200, w, "submitted", 0, "json")
    /\ UNCHANGED <<now, demoMode, refineLog>>
    /\ UNCHANGED <<qaVars, componentVars>>

NextConcurrent ==
    \/ \E prompt \in {"window"}, modelOk \in BOOLEAN, answer \in TrackerAnswers :
          GenerateStore(prompt, modelOk, answer)
    \/ \E r \in RequestIds : RefineBegin(r)
    \/ \E r \in RequestIds, modelOk \in BOOLEAN, answer \in TrackerAnswers :
          RefineStore(r, modelOk, answer)
    \/ \E r \in RequestIds, targetFolder \in {"local", "folder"} :
          ExecuteBegin(r, targetFolder)
    \/ \E r \in RequestIds, outcome \in SubmitOutcomes : ExecuteFinish(r, outcome)

SpecConcurrent == Init /\ [][NextConcurrent]_vars

\* no handler is suspended
AllCompleted == \A r \in RequestIds : requests[r].pc # "awaiting"

\* C25: whenever no refine or execute request on the session is in flight,
\* the session's refinement counter is the number of refine requests that
\* stored a refined SIR since the session was generated, and the stored
\* SIR is the one the last of them stored.
C25_NoRefinementLost ==
    (AllCompleted /\ sessionRef # 0) =>
        /\ activeSessions[ConcurrentSession].refinementCount = Len(refineLog)
        /\ refineLog # <<>> =>
              activeSessions[ConcurrentSession].sir = refineLog[Len(refineLog)]

\* C26: the parameters submitted with a job were derived from a SIR whose
\* stored QA result had overallPass = TRUE when they were derived, also
\* when a refine or generate request stored a session while the execute
\* request was suspended.
C26_ParamsFromPassingSIR ==
    \A r \in RequestIds :
        requests[r].submitted # <<>> =>
            /\ requests[r].submitted.overallPass
            /\ requests[r].submitted.sir = sessionObjects[requests[r].ref].sir

\* a job went out although a failing SIR was stored during the await
C26_Witness ==
    \E r \in RequestIds :
        /\ requests[r].submitted # <<>>
        /\ requests[r].overlapped
        /\ \E k \in 1..Len(sessionObjects) :
              /\ k > requests[r].ref
              /\ ~sessionObjects[k].qaResult.overallPass

(***************************************************************************)
(* From a SIR to a submitted job: the routes that store a session (POST    *)
(* /v1/generate, POST /create, POST /v1/refine) and POST /v1/execute, with *)
(* model answers of every LOD level: 300, 250 (inside the range of         *)
(* BIMLLMService.validateSIR, no multiple of 100), 600 (outside it) and    *)
(* none.                                                                   *)
(***************************************************************************)
SubmitAnswers ==
    ModelSIRs \cup
    {[sir EXCEPT !.familyMetadata.lodLevel = Undef] :
        sir \in {m \in ModelSIRs : m.familyMetadata.lodLevel = 250}}

NextSubmit ==
    \/ \E sid \in SessionIds, prompt \in Prompts, modelOk \in BOOLEAN,
          answer \in SubmitAnswers :
          Generate(sid, prompt, modelOk, answer)
    \/ \E sid \in SessionIds, prompt \in {"", "door"}, authOk \in BOOLEAN :
          Create(sid, prompt, authOk)
    \/ \E sid \in SessionIds, modelOk \in BOOLEAN, answer \in SubmitAnswers :
          Refine(sid, "wider", modelOk, answer)
    \/ \E sid \in SessionIds, targetFolder \in TargetFolders,
          outcome \in SubmitOutcomes :
          Execute(sid, targetFolder, outcome)

SpecSubmit == Init /\ [][NextSubmit]_vars

\* the LOD levels of the SIR schema
LODLevels == {100, 200, 300, 400, 500}

\* POST /v1/execute for session sid submits a job in this step
Submits(sid) ==
    /\ jobCount' = jobCount + 1
    /\ \E targetFolder \in TargetFolders, outcome \in SubmitOutcomes :
          Execute(sid, targetFolder, outcome)

\* C27: every job is submitted for a SIR whose familyMetadata.lodLevel is
\* one of 100, 200, 300, 400, 500, whether the SIR came from the model or
\* from the heuristic fallback.
C27_SubmittedLODIsValid ==
    [][\A sid \in SessionIds :
          Submits(sid) =>
              activeSessions[sid].sir.familyMetadata.lodLevel \in LODLevels]_vars

\* a job was submitted for a session that holds a SIR of the model
C27_Witness ==
    /\ jobCount = 1
    /\ \E sid \in SessionIds :
          /\ activeSessions[sid] # NoSession
          /\ activeSessions[sid].status = "executing"
          /\ activeSessions[sid].sir \in SubmitAnswers

\* the five top-level fields of the SIR schema, a family name and a category
HasRequiredSIRFields(sir) ==
    /\ sir.hasFamilyMetadata /\ sir.hasGeometryDefinition /\ sir.hasParameters
    /\ sir.hasMaterials /\ sir.hasVisibilitySettings
    /\ sir.familyMetadata.familyName # "" /\ sir.familyMetadata.category # ""

\* C28: every SIR generateSIR returns, from the model or from the heuristic
\* fallback, has familyMetadata, geometryDefinition, parameters, materials
\* and visibilitySettings, and a non-empty family name and category.
C28_ReturnedSIRIsComplete ==
    (svcResult # NoServiceResult /\ svcResult.success) =>
        HasRequiredSIRFields(svcResult.sir)

\* workitem w has a record that names a session which exists
BelongsToSession(w) ==
    /\ workitemQueue[w] # NoWorkitem
    /\ workitemQueue[w].sessionId \in SessionIds
    /\ activeSessions[workitemQueue[w].sessionId] # NoSession

\* C29: after a poll of GET /v1/status for a job that belongs to a session,
\* the session's status is the status recorded for the job, for simulated
\* jobs and for jobs of the Design Automation service.
C29_SessionFollowsJobStatus ==
    [][\A w \in WorkitemIds, outcome \in StatusOutcomes :
          (BelongsToSession(w) /\ StatusV1(w, outcome)) =>
              activeSessions'[workitemQueue[w].sessionId].status
                  = workitemQueue'[w].status]_vars

(***************************************************************************)
(* POST /api/families.  The middleware of the router loads the user with   *)
(* User.findById, so every request has a User document of its own; the     *)
(* handler checks canCreateFamily on it, awaits family.save(), then calls  *)
(* incrementFamilyCount, which adds 1 to the document's currentUsage and   *)
(* saves the document.  Requests of one user overlap at the awaits.  What  *)
(* follows the save of the user (the update of the Session document)       *)
(* changes neither the user nor the families.                              *)
(***************************************************************************)
MaxMonthlyLimit == 2

Plans == {"free", "pro"}

Subscription(plan, monthlyLimit, currentUsage) ==
    [plan |-> plan, monthlyLimit |-> monthlyLimit, currentUsage |-> currentUsage]

\* a stored user who has created currentUsage families this month
InitFamilies ==
    /\ QAIdle /\ JobInit /\ ConvertIdle
    /\ \E plan \in Plans, monthlyLimit \in 1..MaxMonthlyLimit :
          \E currentUsage \in 0..monthlyLimit :
             subscription = Subscription(plan, monthlyLimit, currentUsage)
    /\ creates = [r \in CreateIds |-> NoCreate]
    /\ familyCount = 0

\* userSchema.methods.canCreateFamily
canCreateFamily(user) ==
    IF user.plan = "free" THEN user.currentUsage < user.monthlyLimit ELSE TRUE

\* userSchema.methods.incrementFamilyCount, up to its save()
incrementFamilyCount(user) == [user EXCEPT !.currentUsage = @ + 1]

save_Increment(user, stored) == [stored EXCEPT !.currentUsage = @ + 1]

\* document.save(): the changed paths are written with the values the
\* document holds (stored: the subscription in the database)
save(user, stored) == [stored EXCEPT !.currentUsage = user.currentUsage]

UnchangedOthers ==
    UNCHANGED <<qaVars, jobVars, svcVars, family, codeResult, convVars, concVars>>

\* the middleware and the handler up to `await family.save()`
CreateBegin(r) ==
    /\ creates[r].pc = "idle"
    /\ IF r = 1 THEN TRUE ELSE creates[r - 1].pc # "idle"
    /\ creates' =
          [creates EXCEPT ![r] =
              IF canCreateFamily(subscription)
              THEN [pc |-> "savingFamily", user |-> subscription, code |-> 0]
              ELSE [pc |-> "done", user |-> subscription, code |-> 403]]
    /\ UNCHANGED <<subscription, familyCount>>
    /\ UnchangedOthers

\* family.save() settles; on success incrementFamilyCount runs up to its
\* save()
FamilySaved(r, saveOk) ==
    /\ creates[r].pc = "savingFamily"
    /\ IF saveOk
       THEN /\ familyCount' = familyCount + 1
            /\ creates' =
                  [creates EXCEPT ![r].pc = "savingUser",
                                  ![r].user = incrementFamilyCount(@)]
       ELSE /\ creates' = [creates EXCEPT ![r].pc = "done", ![r].code = 500]
            /\ UNCHANGED familyCount
    /\ UNCHANGED subscription
    /\ UnchangedOthers

\* the save() of incrementFamilyCount settles and the handler answers
UserSaved(r, saveOk) ==
    /\ creates[r].pc = "savingUser"
    /\ IF saveOk
       THEN /\ subscription' = save(creates[r].user, subscription)
            /\ creates' = [creates EXCEPT ![r].pc = "done", ![r].code = 201]
       ELSE /\ creates' = [creates EXCEPT ![r].pc = "done", ![r].code = 500]
            /\ UNCHANGED subscription
    /\ UNCHANGED familyCount
    /\ UnchangedOthers

NextFamilies ==
    \/ \E r \in CreateIds : CreateBegin(r)
    \/ \E r \in CreateIds, saveOk \in BOOLEAN : FamilySaved(r, saveOk)
    \/ \E r \in CreateIds, saveOk \in BOOLEAN : UserSaved(r, saveOk)

SpecFamilies == InitFamilies /\ [][NextFamilies]_vars

\* C30: for a free-plan user, currentUsage never exceeds monthlyLimit, in
\* the stored user and in the user document of every request, also when
\* the requests of the user overlap.
C30_UsageWithinLimit ==
    (subscription # <<>> /\ subscription.plan = "free") =>
        /\ subscription.currentUsage <= subscription.monthlyLimit
        /\ \A r \in CreateIds :
              creates[r].user # <<>> =>
                  creates[r].user.currentUsage <= creates[r].user.monthlyLimit

\* two requests of a free-plan user passed the check with one family left
\* and both were answered 201
C30_Witness ==
    /\ subscription # <<>>
    /\ subscription.plan = "free"
    /\ subscription.currentUsage = subscription.monthlyLimit
    /\ \E r1, r2 \in CreateIds :
          /\ r1 # r2
          /\ creates[r1].code = 201 /\ creates[r2].code = 201
          /\ creates[r1].user.currentUsage = subscription.monthlyLimit
          /\ creates[r2].user.currentUsage = subscription.monthlyLimit
====
